---- MODULE Spec2Model ----
(***************************************************************************)
(* Model of the spike dashboard back end (src/app): the recording store,   *)
(* the spike time index, the signal filter, the spike extractor and the    *)
(* cluster result store, with the HTTP handlers that drive them.           *)
(*                                                                         *)
(* Python values are modelled as follows.  A list or a numpy array is a    *)
(* sequence; positions reported to the client are 0-based as in the code,  *)
(* so element i of an array a is a[i + 1].  A value that may be None is a  *)
(* record with a field kind: None itself, or Some(v) holding v in field   *)
(* v, or an object with its own kind.  A float is an exact rational        *)
(* <<numerator, denominator>>.  A dict is a function whose DOMAIN is its   *)
(* key set.                                                                *)
(***************************************************************************)
EXTENDS Integers, Sequences, FiniteSets, TLC

VARIABLES
    pc,                  \* the position of the request thread that is writing
    mappings,            \* LabelMappingManager.mappings: dataset -> label file name
    labels,              \* LABELS_FOLDER: file name -> what the file holds
    files,               \* DATASETS_FOLDER: file name -> what the file holds
    current_dataset,     \* DatasetManager.current_dataset
    nrows,               \* DatasetManager.nrows
    data_array,          \* DatasetManager.data_array: None or [kind, dtype, rows]
    spike_times_data,    \* SpikeTimesManager.spike_times_data
    clustering_results,  \* ClusteringManager.clustering_results
    results_file,        \* the two persisted result files, by family
    persisted,           \* history: the family and ClusterSet of the last save
    deployment,          \* gpu_backend and the import flags of clustering_manager
    runs,                \* sorting runs started so far
    response             \* the response of the request being served

vars == <<pc, mappings, labels, files, current_dataset, nrows, data_array, spike_times_data, clustering_results, results_file,
          persisted, deployment, runs, response>>

None == [kind |-> "None"]
Some(x) == [kind |-> "some", v |-> x]

(***************************************************************************)
(* Bounds of the model.                                                    *)
(***************************************************************************)
MaxLen == 4          \* longest sample sequence handed to _detect_spikes alone
NumChannels == 2     \* rows of a modelled recording
NumSamples == 8      \* columns of a modelled recording
MaxClusters == 2     \* clusters the clustering algorithm returns at most
MaxSpikes == 2       \* spikes per cluster the clustering algorithm returns at most
MaxDetections == 3   \* spikes the template-matching pipeline returns at most
MaxTimes == 2        \* spike times per entry of a modelled spike index
MaxChannels == 2     \* channel ids in one request
ClusterSamples == 34 \* columns of the recording that sorting runs work on
MaxRuns == 2         \* sorting runs in one behaviour
MaxStatSpikes == 3   \* spikes of the cluster whose statistics are examined
MaxClusterIds == 2   \* cluster ids in one batch

(***************************************************************************)
(* Program constants.                                                      *)
(***************************************************************************)
max_points == 20000
spike_window == 5
buffer_size == 100
window_size == 15
Int16Min == -32768
Int16Max == 32767

(***************************************************************************)
(* Python and numpy primitives.                                            *)
(***************************************************************************)
Max(a, b) == IF a >= b THEN a ELSE b
Min(a, b) == IF a <= b THEN a ELSE b

\* A slice bound as Python normalises it against a length n.
SliceIndex(i, n) == IF i < 0 THEN Max(0, i + n) ELSE Min(i, n)

\* s[a:b] for a sequence s, a and b any integers (negative counts from the end).
PySlice(s, a, b) == SubSeq(s, SliceIndex(a, Len(s)) + 1, SliceIndex(b, Len(s)))

\* numpy.argmin / numpy.argmax: the 0-based position of the first extreme value.
\* best is the position of the extreme among the elements before position i.
RECURSIVE ArgMinFrom(_, _, _)
ArgMinFrom(s, i, best) ==
    IF i >= Len(s) THEN best
    ELSE ArgMinFrom(s, i + 1, IF s[i + 1] < s[best + 1] THEN i ELSE best)

RECURSIVE ArgMaxFrom(_, _, _)
ArgMaxFrom(s, i, best) ==
    IF i >= Len(s) THEN best
    ELSE ArgMaxFrom(s, i + 1, IF s[i + 1] > s[best + 1] THEN i ELSE best)

ArgMin(s) == ArgMinFrom(s, 1, 0)
ArgMax(s) == ArgMaxFrom(s, 1, 0)

(***************************************************************************)
(* SpikeDataProcessor._detect_spikes.                                      *)
(***************************************************************************)
\* The per-sample flag: a numpy comparison when a threshold is given.
IsSpikeFlags(channel_data, spike_threshold, invert_data) ==
    [i \in 1..Len(channel_data) |->
        IF spike_threshold = None THEN FALSE
        ELSE IF invert_data THEN channel_data[i] >= spike_threshold.v
        ELSE channel_data[i] <= spike_threshold.v]

\* The scan of lines 199-214 from position i on; in_spike, spike_start_idx and
\* spike_peaks are the loop's variables.
RECURSIVE DetectLoop(_, _, _, _, _, _, _)
DetectLoop(channel_data, is_spike, invert_data, i, in_spike, spike_start_idx, spike_peaks) ==
    IF i >= Len(is_spike) THEN spike_peaks
    ELSE IF is_spike[i + 1] /\ ~in_spike
    THEN DetectLoop(channel_data, is_spike, invert_data, i + 1, TRUE, i, spike_peaks)
    ELSE IF (~is_spike[i + 1] \/ i = Len(is_spike) - 1) /\ in_spike
    THEN LET spike_end_idx == IF ~is_spike[i + 1] THEN i ELSE i + 1
             spike_segment == PySlice(channel_data, spike_start_idx, spike_end_idx)
             peak_idx == IF invert_data
                         THEN spike_start_idx + ArgMax(spike_segment)
                         ELSE spike_start_idx + ArgMin(spike_segment)
         IN  DetectLoop(channel_data, is_spike, invert_data, i + 1, FALSE, spike_start_idx,
                        IF Len(spike_segment) > 0
                        THEN Append(spike_peaks, peak_idx) ELSE spike_peaks)
    ELSE DetectLoop(channel_data, is_spike, invert_data, i + 1, in_spike,
                    spike_start_idx, spike_peaks)

_detect_spikes(channel_data, spike_threshold, invert_data) ==
    LET is_spike == IsSpikeFlags(channel_data, spike_threshold, invert_data)
    IN  [is_spike |-> is_spike,
         spike_peaks |-> IF spike_threshold = None THEN <<>>
                         ELSE DetectLoop(channel_data, is_spike, invert_data,
                                         0, FALSE, 0, <<>>)]

(***************************************************************************)
(* Floats.  A float is the exact rational <<n, d>> with d > 0; NaN, the    *)
(* mean of an empty array, has d = 0.                                      *)
(***************************************************************************)
ToFloat(n) == <<n, 1>>
NaN == <<0, 0>>
RatAdd(a, b) ==
    IF a[2] = b[2] THEN <<a[1] + b[1], a[2]>>
    ELSE <<a[1] * b[2] + b[1] * a[2], a[2] * b[2]>>
RatNeg(a) == <<0 - a[1], a[2]>>
RatQuarter(a) == <<a[1], 4 * a[2]>>

\* numpy.round(...).astype(int): round half to even, then an int64.
RoundToInt(a) ==
    LET q == a[1] \div a[2]
        r == a[1] % a[2]
    IN  IF 2 * r < a[2] THEN q
        ELSE IF 2 * r > a[2] THEN q + 1
        ELSE IF q % 2 = 0 THEN q ELSE q + 1

RECURSIVE SumSeq(_)
SumSeq(s) == IF Len(s) = 0 THEN 0 ELSE Head(s) + SumSeq(Tail(s))

\* numpy.mean of an array of recording samples.
Mean(s) == IF Len(s) = 0 THEN NaN ELSE <<SumSeq(s), Len(s)>>

\* Unary minus on an array of the given dtype: int16 wraps, so that the
\* negation of -32768 is -32768; float32 and int64 values negate exactly.
Negate(s, dtype) ==
    [i \in 1..Len(s) |->
        IF dtype = "int16" /\ s[i] = Int16Min THEN Int16Min ELSE 0 - s[i]]

(***************************************************************************)
(* FilterProcessor.                                                        *)
(*                                                                         *)
(* scipy.signal.butter and filtfilt are library code.  Their place is      *)
(* taken by zero-phase kernels of the same kind: Smooth keeps the mean of  *)
(* a signal (low-pass), x - Smooth(x) removes it (high-pass), and the      *)
(* band-pass is the high-pass of the low-pass.  Whether the design or the  *)
(* application raises (cutoff above Nyquist, input shorter than the        *)
(* padding) is the input `fails` of apply_filter.                          *)
(***************************************************************************)
KnownFilters == {"highpass", "lowpass", "bandpass"}

Smooth(x) ==
    [i \in 1..Len(x) |->
        RatQuarter(RatAdd(RatAdd(x[Max(i - 1, 1)], x[i]),
                          RatAdd(x[i], x[Min(i + 1, Len(x))])))]

Residual(x) ==
    LET smooth == Smooth(x)
    IN  [i \in 1..Len(x) |-> RatAdd(x[i], RatNeg(smooth[i]))]

filtfilt(filter_type, x) ==
    IF filter_type = "lowpass" THEN Smooth(x)
    ELSE IF filter_type = "highpass" THEN Residual(x)
    ELSE Residual(Smooth(x))

apply_filter(data, filter_type, fails) ==
    IF filter_type \in KnownFilters
    THEN IF fails THEN data ELSE filtfilt(filter_type, data)
    ELSE data

\* full_row is full_data[channel_idx, :].
apply_filter_with_buffer(data, full_row, start_time, end_time, filter_type, fails) ==
    LET total_available == Len(full_row)
        buffer_start == Max(0, start_time - buffer_size)
        buffer_end == Min(total_available, end_time + buffer_size)
        buffered_data == PySlice(full_row, buffer_start, buffer_end)
        original_mean == Mean(data)
        filtered_buffered ==
            apply_filter([i \in 1..Len(buffered_data) |-> ToFloat(buffered_data[i])],
                         filter_type, fails)
        offset == start_time - buffer_start
        filtered_data == PySlice(filtered_buffered, offset, offset + Len(data))
    IN  IF filter_type \in {"highpass", "bandpass"}
        THEN [i \in 1..Len(filtered_data) |-> RatAdd(filtered_data[i], original_mean)]
        ELSE filtered_data

(***************************************************************************)
(* DatasetManager.get_channel_data.                                        *)
(***************************************************************************)
Shape0(arr) == Len(arr.rows)
Shape1(arr) == Len(arr.rows[1])

\* data_array[channel_idx, :]: numpy counts a negative row index from the end.
FullRow(arr, channel_idx) == arr.rows[(channel_idx % Shape0(arr)) + 1]

\* get_channel_data without the test array_index < 0.
get_channel_data_no_lower_test(arr, channel_id, start_time, end_time) ==
    IF arr = None THEN None
    ELSE LET array_index == channel_id - 1
         IN  IF array_index >= Shape0(arr) THEN None
             ELSE Some(PySlice(FullRow(arr, array_index),
                               Max(0, start_time), Min(Shape1(arr), end_time)))

get_channel_data(arr, channel_id, start_time, end_time) ==
    IF arr = None THEN None
    ELSE LET array_index == channel_id - 1
         IN  IF array_index >= Shape0(arr) \/ array_index < 0 THEN None
             ELSE Some(PySlice(FullRow(arr, array_index),
                               Max(0, start_time), Min(Shape1(arr), end_time)))

(***************************************************************************)
(* SpikeDataProcessor.get_real_data.                                       *)
(***************************************************************************)
RoundAll(x) == [i \in 1..Len(x) |-> RoundToInt(x[i])]
NegateFloats(x) == [i \in 1..Len(x) |-> RatNeg(x[i])]

\* Lines 51-93 for one channel whose raw slice is channel_data.
RealChannelResult(arr, channel_id, channel_data, spike_threshold, invert_data, start_time, end_time, data_type, filter_type, fails) ==
    LET original_raw_data == channel_data
        filtered_data ==
            IF filter_type # "none"
            THEN Some(apply_filter_with_buffer(channel_data, FullRow(arr, channel_id - 1),
                                               start_time, end_time, filter_type, fails))
            ELSE None
        shown == IF filter_type # "none" /\ data_type = "spikes"
                 THEN [dtype |-> "int64", v |-> RoundAll(filtered_data.v)]
                 ELSE [dtype |-> arr.dtype, v |-> original_raw_data]
        channel_data2 == IF invert_data THEN Negate(shown.v, shown.dtype) ELSE shown.v
        filtered_data2 == IF invert_data /\ filtered_data # None
                          THEN Some(NegateFloats(filtered_data.v)) ELSE filtered_data
        det == _detect_spikes(channel_data2, spike_threshold, invert_data)
        entry == [data |-> channel_data2,
                  isSpike |-> det.is_spike,
                  spikePeaks |-> det.spike_peaks,
                  channelId |-> channel_id,
                  startTime |-> start_time,
                  endTime |-> end_time]
    IN  IF filtered_data2 # None
        THEN [filteredData |-> RoundAll(filtered_data2.v)] @@ entry
        ELSE entry

\* The loop of line 46 from position k of the list channels on; data is the
\* dict built so far.
RECURSIVE RealLoop(_, _, _, _, _, _, _, _, _, _, _)
RealLoop(arr, channels, k, data, spike_threshold, invert_data, start_time, end_time, data_type, filter_type, fails) ==
    IF k > Len(channels) THEN data
    ELSE LET channel_id == channels[k]
             channel_data == get_channel_data(arr, channel_id, start_time, end_time)
         IN  RealLoop(arr, channels, k + 1,
                 IF channel_data = None THEN data
                 ELSE (channel_id :> RealChannelResult(arr, channel_id, channel_data.v,
                           spike_threshold, invert_data, start_time, end_time,
                           data_type, filter_type, fails)) @@ data,
                 spike_threshold, invert_data, start_time, end_time,
                 data_type, filter_type, fails)

get_real_data(arr, channels, spike_threshold, invert_data, start_time, end_time, data_type, filter_type, fails) ==
    IF arr = None THEN <<>>
    ELSE LET total_available == Shape1(arr)
         IN  RealLoop(arr, channels, 1, <<>>, spike_threshold, invert_data,
                      Max(0, start_time), Min(total_available, end_time),
                      data_type, filter_type, fails)

(***************************************************************************)
(* SpikeDataProcessor.get_precomputed_spike_data.                          *)
(***************************************************************************)
\* dict.get(key, default) on the per-channel spike index.
DictGet(d, key, default) == IF key \in DOMAIN d THEN d[key] ELSE default

IntKey(channel_id) == <<"int", channel_id>>
StrKey(channel_id) == <<"str", channel_id>>

\* Lines 149-150: the window-relative offsets of the spike times in the window.
RECURSIVE WindowPeaks(_, _, _)
WindowPeaks(spike_times_list, start_time, end_time) ==
    IF Len(spike_times_list) = 0 THEN <<>>
    ELSE LET t == Head(spike_times_list)
             rest == WindowPeaks(Tail(spike_times_list), start_time, end_time)
         IN  IF start_time <= t /\ t < end_time
             THEN <<t - start_time>> \o rest ELSE rest

\* Lines 153-157: mark the +-spike_window neighbourhood of every peak.
RECURSIVE MarkPeaks(_, _)
MarkPeaks(is_spike, spike_peaks) ==
    IF Len(spike_peaks) = 0 THEN is_spike
    ELSE LET peak_idx == Head(spike_peaks)
         IN  MarkPeaks([i \in 1..Len(is_spike) |->
                           \/ is_spike[i]
                           \/ \E offset \in (0 - spike_window)..spike_window :
                                  peak_idx + offset = i - 1],
                       Tail(spike_peaks))

PrecomputedChannelResult(arr, idx, channel_id, channel_data, start_time, end_time, filter_type, invert_data, data_type, fails) ==
    LET original_raw_data == channel_data
        filtered_data_array ==
            IF filter_type # "none"
            THEN Some(apply_filter_with_buffer(channel_data, FullRow(arr, channel_id - 1),
                                               start_time, end_time, filter_type, fails))
            ELSE None
        shown == IF filter_type # "none" /\ data_type = "spikes"
                 THEN [dtype |-> "int64", v |-> RoundAll(filtered_data_array.v)]
                 ELSE [dtype |-> arr.dtype, v |-> original_raw_data]
        channel_data2 == IF invert_data THEN Negate(shown.v, shown.dtype) ELSE shown.v
        filtered2 == IF invert_data /\ filtered_data_array # None
                     THEN Some(NegateFloats(filtered_data_array.v)) ELSE filtered_data_array
        spike_times_list ==
            IF idx.kind = "ndarray" THEN idx.times
            ELSE DictGet(idx.items, IntKey(channel_id), [times |-> <<>>]).times
        spike_peaks == WindowPeaks(spike_times_list, start_time, end_time)
        is_spike == MarkPeaks([i \in 1..Len(channel_data2) |-> FALSE], spike_peaks)
        entry == [data |-> channel_data2,
                  isSpike |-> is_spike,
                  spikePeaks |-> spike_peaks,
                  channelId |-> channel_id,
                  startTime |-> start_time,
                  endTime |-> end_time,
                  precomputed |-> TRUE]
    IN  IF filtered2 # None /\ data_type = "filtered"
        THEN [filteredData |-> RoundAll(filtered2.v)] @@ entry
        ELSE entry

RECURSIVE PrecomputedLoop(_, _, _, _, _, _, _, _, _, _, _)
PrecomputedLoop(arr, idx, channels, k, data, start_time, end_time, filter_type, invert_data, data_type, fails) ==
    IF k > Len(channels) THEN data
    ELSE LET channel_id == channels[k]
             channel_data == get_channel_data(arr, channel_id, start_time, end_time)
         IN  PrecomputedLoop(arr, idx, channels, k + 1,
                 IF channel_data = None THEN data
                 ELSE (channel_id :> PrecomputedChannelResult(arr, idx, channel_id,
                           channel_data.v, start_time, end_time, filter_type,
                           invert_data, data_type, fails)) @@ data,
                 start_time, end_time, filter_type, invert_data, data_type, fails)

get_precomputed_spike_data(arr, idx, channels, start_time, end_time, filter_type, invert_data, data_type, fails) ==
    IF arr = None \/ idx = None THEN <<>>
    ELSE PrecomputedLoop(arr, idx, channels, 1, <<>>, start_time, end_time,
                         filter_type, invert_data, data_type, fails)

(***************************************************************************)
(* routes/spike_data.py: get_spike_data.                                   *)
(***************************************************************************)
get_spike_data(arr, idx, req) ==
    LET end_time == Min(req.endTime, req.startTime + max_points)
    IN  IF req.usePrecomputed /\ idx # None
        THEN get_precomputed_spike_data(arr, idx, req.channels, req.startTime,
                 end_time, req.filterType, req.invertData, req.dataType, req.fails)
        ELSE get_real_data(arr, req.channels, req.spikeThreshold, req.invertData,
                 req.startTime, end_time, req.dataType, req.filterType, req.fails)

(***************************************************************************)
(* SpikeTimesManager.navigate_spike.                                       *)
(*                                                                         *)
(* The spike index is None, a global numpy array [kind |-> "ndarray",      *)
(* times], or a dict [kind |-> "dict", items] from keys (an int or a str   *)
(* channel id) to a list or a numpy array of times, as load_spike_times    *)
(* leaves it.                                                              *)
(***************************************************************************)
Raise == [kind |-> "raise"]

\* bool(v), as `or` evaluates it: "true", "false" or "raise".  The truth of
\* an empty numpy array is False or an error, depending on the numpy build.
Truth(v, empty_array_raises) ==
    IF v = None THEN "false"
    ELSE IF v.kind = "list" THEN (IF Len(v.times) > 0 THEN "true" ELSE "false")
    ELSE IF Len(v.times) = 0 THEN (IF empty_array_raises THEN "raise" ELSE "false")
    ELSE IF Len(v.times) = 1 THEN (IF v.times[1] # 0 THEN "true" ELSE "false")
    ELSE "raise"

\* Line 109: d.get(channel_id) or d.get(str(channel_id)); Raise when the
\* truth test raises.
ChannelSpikes(items, channel_id, empty_array_raises) ==
    LET first == DictGet(items, IntKey(channel_id), None)
        truth == Truth(first, empty_array_raises)
    IN  IF truth = "raise" THEN Raise
        ELSE IF truth = "true" THEN first
        ELSE DictGet(items, StrKey(channel_id), None)

\* Lines 108-114 from position k of channels on: Some(all_spikes) or Raise.
RECURSIVE CollectSpikes(_, _, _, _, _)
CollectSpikes(items, channels, k, all_spikes, empty_array_raises) ==
    IF k > Len(channels) THEN Some(all_spikes)
    ELSE LET channel_spikes == ChannelSpikes(items, channels[k], empty_array_raises)
         IN  IF channel_spikes = Raise THEN Raise
             ELSE CollectSpikes(items, channels, k + 1,
                      IF channel_spikes # None
                      THEN all_spikes \o channel_spikes.times ELSE all_spikes,
                      empty_array_raises)

SeqRange(s) == {s[i] : i \in 1..Len(s)}

\* sorted(set(...)).
RECURSIVE SortedSeq(_)
SortedSeq(S) ==
    IF S = {} THEN <<>>
    ELSE LET m == CHOOSE x \in S : \A y \in S : x <= y
         IN  <<m>> \o SortedSeq(S \ {m})

\* Lines 122-128: the first spike after current_time, else the first of all.
NextTarget(unique_spikes, current_time) ==
    LET later == {i \in 1..Len(unique_spikes) : unique_spikes[i] > current_time}
    IN  IF later # {}
        THEN unique_spikes[CHOOSE i \in later : \A j \in later : i <= j]
        ELSE unique_spikes[1]

\* Lines 129-135: the last spike before current_time, else the last of all.
PrevTarget(unique_spikes, current_time) ==
    LET earlier == {i \in 1..Len(unique_spikes) : unique_spikes[i] < current_time}
    IN  IF earlier # {}
        THEN unique_spikes[CHOOSE i \in earlier : \A j \in earlier : i >= j]
        ELSE unique_spikes[Len(unique_spikes)]

\* None, Raise, or Some(<<spike time, number of distinct spikes>>).
navigate_spike(idx, current_time, direction, channels, empty_array_raises) ==
    IF idx = None THEN None
    ELSE LET collected ==
                 IF idx.kind = "ndarray" THEN Some(idx.times)
                 ELSE CollectSpikes(idx.items, channels, 1, <<>>, empty_array_raises)
         IN  IF collected = Raise THEN Raise
             ELSE IF Len(collected.v) = 0 THEN None
             ELSE LET unique_spikes == SortedSeq(SeqRange(collected.v))
                      target_spike == IF direction = "next"
                                      THEN NextTarget(unique_spikes, current_time)
                                      ELSE PrevTarget(unique_spikes, current_time)
                  IN  Some(<<target_spike, Len(unique_spikes)>>)

\* routes/spike_data.py: navigate_spike, the HTTP handler.
navigate_spike_route(idx, req) ==
    LET result == navigate_spike(idx, req.currentTime, req.direction, req.channels,
                                 req.emptyArrayRaises)
    IN  IF result = Raise THEN [status |-> 500, body |-> None]
        ELSE IF result = None THEN [status |-> 404, body |-> None]
        ELSE [status |-> 200,
              body |-> [spikeTime |-> result.v[1], totalSpikes |-> result.v[2]]]

(***************************************************************************)
(* ClusteringManager: normalising the output of a sorting run.             *)
(*                                                                         *)
(* sklearn's PCA is library code.  A waveform is identified by an integer  *)
(* and Project gives its two coordinates, one-to-one; fit_transform raises *)
(* when it is given fewer than two rows.                                   *)
(***************************************************************************)
Project(w) == [x |-> <<2 * w - 7, 2>>, y |-> <<0 - w, 4>>]

RECURSIVE Flatten(_)
Flatten(ss) == IF Len(ss) = 0 THEN <<>> ELSE Head(ss) \o Flatten(Tail(ss))

\* sorted(meta, key=lambda x: x[1]): a stable sort by time; meta is <<channel, time>>.
RECURSIVE SortByTime(_)
SortByTime(meta) ==
    IF Len(meta) = 0 THEN <<>>
    ELSE LET k == CHOOSE i \in 1..Len(meta) :
                      /\ \A j \in 1..Len(meta) : meta[i][2] <= meta[j][2]
                      /\ \A j \in 1..(i - 1) : meta[j][2] > meta[i][2]
         IN  <<meta[k]>> \o SortByTime(SubSeq(meta, 1, k - 1) \o SubSeq(meta, k + 1, Len(meta)))

SpikeRecord_index_from_one(point, channel, time, index) ==
    [x |-> point.x, y |-> point.y, channel |-> channel, time |-> time,
     spikeIndex |-> index + 1]
SpikeRecord(point, channel, time, index) ==
    [x |-> point.x, y |-> point.y, channel |-> channel, time |-> time,
     spikeIndex |-> index]

\* Lines 391-411: the clusters from position c on; start_idx is the row of the
\* joint projection at which cluster c begins.
RECURSIVE JimsClusters(_, _, _, _)
JimsClusters(pca_rows, meta_picked, c, start_idx) ==
    IF c > Len(meta_picked) THEN <<>>
    ELSE LET meta_list == meta_picked[c]
             cluster_size == Len(meta_list)
             cluster_pca == PySlice(pca_rows, start_idx, start_idx + cluster_size)
             cluster_data ==
                 [i \in 1..Min(Len(cluster_pca), Len(meta_list)) |->
                     SpikeRecord(cluster_pca[i], meta_list[i][1], meta_list[i][2], i - 1)]
         IN  <<cluster_data>> \o
             JimsClusters(pca_rows, meta_picked, c + 1, start_idx + cluster_size)

\* clusters[c] is the sequence of waveforms of cluster c, clusters_meta[c] the
\* <<channel, time>> of each.  Some(ClusterSet), or Raise with nothing stored.
_store_clustering_results_unsorted(clusters, clusters_meta) ==
    LET all_clustered_spikes == Flatten(clusters)
    IN  IF \/ \E c \in 1..Len(clusters) : Len(clusters[c]) = 0
           \/ Len(clusters) = 0
           \/ Len(all_clustered_spikes) < 2
        THEN Raise
        ELSE Some(JimsClusters([j \in 1..Len(all_clustered_spikes) |->
                                    Project(all_clustered_spikes[j])],
                               clusters_meta, 1, 0))
_store_clustering_results(clusters, clusters_meta) ==
    LET meta_picked == [c \in 1..Len(clusters_meta) |-> SortByTime(clusters_meta[c])]
        all_clustered_spikes == Flatten(clusters)
    IN  IF \/ \E c \in 1..Len(clusters) : Len(clusters[c]) = 0
           \/ Len(clusters) = 0
           \/ Len(all_clustered_spikes) < 2
        THEN Raise
        ELSE Some(JimsClusters([j \in 1..Len(all_clustered_spikes) |->
                                    Project(all_clustered_spikes[j])],
                               meta_picked, 1, 0))

\* numpy.unique of the cluster labels and the times carrying one label.
RECURSIVE TimesOf(_, _, _)
TimesOf(spike_times, spike_clusters, cluster_id) ==
    IF Len(spike_times) = 0 THEN <<>>
    ELSE (IF Head(spike_clusters) = cluster_id THEN <<Head(spike_times)>> ELSE <<>>)
         \o TimesOf(Tail(spike_times), Tail(spike_clusters), cluster_id)

\* Line 316: the spike has a full window inside the recording.
HasWindow(arr, spike_sample) ==
    window_size < spike_sample /\ spike_sample < Shape1(arr) - window_size

RECURSIVE Retained(_, _)
Retained(arr, cluster_times) ==
    IF Len(cluster_times) = 0 THEN <<>>
    ELSE (IF HasWindow(arr, Head(cluster_times)) THEN <<Head(cluster_times)>> ELSE <<>>)
         \o Retained(arr, Tail(cluster_times))

Abs(n) == IF n < 0 THEN 0 - n ELSE n

\* Lines 317-320: the channel of largest baseline-corrected amplitude in the
\* window; amplitudes are scaled by the window length, the same for all rows.
PeakChannel(arr, spike_sample) ==
    LET Amplitude(c) ==
            LET w == PySlice(arr.rows[c], spike_sample - window_size,
                             spike_sample + window_size)
                total == SumSeq(w)
                n == Len(w)
                dev == [j \in 1..n |-> Abs(n * w[j] - total)]
            IN  dev[ArgMax(dev) + 1]
        amps == [c \in 1..Shape0(arr) |-> Amplitude(c)]
    IN  ArgMax(amps) + 1

\* Lines 345-364: zip(unique_clusters, cluster_sizes) from position k on.
RECURSIVE KilosortClusters(_, _, _, _, _, _, _, _)
KilosortClusters(spike_times, spike_clusters, unique_clusters, cluster_sizes, pca_coords, all_spike_channels, k, start_idx) ==
    IF k > Min(Len(unique_clusters), Len(cluster_sizes)) THEN <<>>
    ELSE LET cluster_id == unique_clusters[k]
             size == cluster_sizes[k]
             cluster_times == TimesOf(spike_times, spike_clusters, cluster_id)
             cluster_pca == PySlice(pca_coords, start_idx, start_idx + size)
             cluster_channels == PySlice(all_spike_channels, start_idx, start_idx + size)
             times == PySlice(cluster_times, 0, size)
             n == Min(Len(cluster_pca), Min(Len(times), Len(cluster_channels)))
             cluster_data ==
                 [i \in 1..n |->
                     SpikeRecord(cluster_pca[i], cluster_channels[i], times[i], i - 1)]
         IN  <<cluster_data>> \o
             KilosortClusters(spike_times, spike_clusters, unique_clusters,
                              cluster_sizes, pca_coords, all_spike_channels,
                              k + 1, start_idx + size)

\* [raised, stored]: stored is what clustering_results holds when the method
\* returns or raises (it is emptied on line 298, before the projection).
_store_kilosort4_results(arr, spike_times, spike_clusters) ==
    LET unique_clusters == SortedSeq(SeqRange(spike_clusters))
        kept == [k \in 1..Len(unique_clusters) |->
                    Retained(arr, TimesOf(spike_times, spike_clusters,
                                          unique_clusters[k]))]
        all_spike_waveforms == Flatten(kept)
        all_spike_channels == [j \in 1..Len(all_spike_waveforms) |->
                                  PeakChannel(arr, all_spike_waveforms[j])]
        cluster_sizes == SelectSeq([k \in 1..Len(kept) |-> Len(kept[k])],
                                   LAMBDA n : n > 0)
    IN  IF Len(all_spike_waveforms) = 0 THEN [raised |-> FALSE, stored |-> <<>>]
        ELSE IF Len(all_spike_waveforms) < 2 THEN [raised |-> TRUE, stored |-> <<>>]
        ELSE [raised |-> FALSE,
              stored |-> KilosortClusters(spike_times, spike_clusters, unique_clusters,
                             cluster_sizes,
                             [j \in 1..Len(all_spike_waveforms) |->
                                 Project(all_spike_waveforms[j])],
                             all_spike_channels, 1, 0)]

(***************************************************************************)
(* ClusteringManager: persisting and reloading a ClusterSet.               *)
(***************************************************************************)
\* numpy.array(rows, dtype=float64) of an int, and astype(int64) of a float.
TruncInt(a) == IF a[1] >= 0 THEN a[1] \div a[2] ELSE 0 - ((0 - a[1]) \div a[2])

\* Lines 530-539: the flat rows [x, y, cluster_id, time, channel].
RECURSIVE ResultRows(_, _)
ResultRows(results, cluster_idx) ==
    IF cluster_idx >= Len(results) THEN <<>>
    ELSE [i \in 1..Len(results[cluster_idx + 1]) |->
             LET spike == results[cluster_idx + 1][i]
             IN  <<spike.x, spike.y, ToFloat(cluster_idx), ToFloat(spike.time),
                   ToFloat(spike.channel)>>]
         \o ResultRows(results, cluster_idx + 1)

\* The file after _save_..._results_to_file: written only when there are rows.
SavedFile(current, file) ==
    IF current = None THEN file
    ELSE LET rows == ResultRows(current.v, 0)
         IN  IF Len(rows) > 0 THEN Some(rows) ELSE file

_save_torchbci_results_to_file(current, file) == SavedFile(current, file)
_save_kilosort4_results_to_file(current, file) == SavedFile(current, file)

\* Lines 558-577: the ClusterSet rebuilt from the rows of a file.
LoadedResults(arr) ==
    LET cluster_ids == [r \in 1..Len(arr) |-> TruncInt(arr[r][3])]
        unique_clusters == SortedSeq(SeqRange(cluster_ids))
        RowsOf(cluster_id) == SelectSeq(arr, LAMBDA row : TruncInt(row[3]) = cluster_id)
    IN  [k \in 1..Len(unique_clusters) |->
            LET mine == RowsOf(unique_clusters[k])
            IN  [i \in 1..Len(mine) |->
                    [x |-> mine[i][1], y |-> mine[i][2],
                     channel |-> TruncInt(mine[i][5]),
                     time |-> TruncInt(mine[i][4]),
                     spikeIndex |-> i - 1]]]

\* Raise stands for FileNotFoundError.
load_preprocessed_torchbci(file) == IF file = None THEN Raise ELSE Some(LoadedResults(file.v))
load_preprocessed_kilosort4(file) == IF file = None THEN Raise ELSE Some(LoadedResults(file.v))

(***************************************************************************)
(* DatasetManager: loading a recording from DATASETS_FOLDER.               *)
(*                                                                         *)
(* A file of the folder is [float32, mmap, payload]: the array of its      *)
(* _float32.npy sibling and of its _mmap.npy/_shape.txt siblings (None     *)
(* when absent) and what the file itself holds.  A payload is              *)
(*   [kind |-> "tensor", data |-> a]   a torch tensor or an ndarray,       *)
(*   [kind |-> "object"]               any other pickled object,           *)
(*   [kind |-> "corrupt"]              bytes the decoder raises on,        *)
(*   [kind |-> "int16", samples |-> q] a flat stream of int16 samples.     *)
(* A 2-D array is [kind, dtype, rows]; an array of another rank is         *)
(* [kind, dtype, shape, flat].                                             *)
(***************************************************************************)
DEFAULT_CHANNELS == 385
DEFAULT_DATASET == "c46_data_5percent.pt"

Array2D(dtype, rows) == [kind |-> "array", dtype |-> dtype, rows |-> rows]
ArrayND(dtype, shape, flat) ==
    [kind |-> "array", dtype |-> dtype, shape |-> shape, flat |-> flat]

\* ndarray.ndim and ndarray.shape.
Ndim(data) == IF "shape" \in DOMAIN data THEN Len(data.shape) ELSE 2
ShapeOf(data) ==
    IF "shape" \in DOMAIN data THEN data.shape
    ELSE <<Len(data.rows), IF Len(data.rows) = 0 THEN 0 ELSE Len(data.rows[1])>>

\* data.T of a 2-D array.
Transposed(data) ==
    Array2D(data.dtype,
            [c \in 1..ShapeOf(data)[2] |->
                [r \in 1..ShapeOf(data)[1] |-> data.rows[r][c]]])

\* filename.endswith(...), by table: TLC cannot look inside a string.
Extension(filename) ==
    CASE filename = "c46_data_5percent.pt" -> ".pt"
      [] filename = "session.npy" -> ".npy"
      [] filename = "unit7.dat" -> ".dat"
      [] OTHER -> ".bin"

\* Returns an array, None (unexpected object type) or Raise (decoder error).
_load_pt_file(file) ==
    IF file.float32 # None THEN file.float32.v
    ELSE IF file.mmap # None THEN file.mmap.v
    ELSE IF file.payload.kind = "tensor"
    THEN LET data == file.payload.data
         IN  IF Ndim(data) = 2 /\ ShapeOf(data)[1] > ShapeOf(data)[2]
             THEN Transposed(data)
             ELSE data
    ELSE IF file.payload.kind = "object" THEN None
    ELSE Raise

_load_npy_file(file) ==
    IF file.float32 # None THEN file.float32.v
    ELSE IF file.payload.kind = "tensor" THEN file.payload.data
    ELSE Raise

\* data_memmap.reshape((-1, rows)).T: raises unless rows divides the length.
ReshapeT(samples, rows) ==
    IF rows <= 0 \/ Len(samples) = 0 \/ Len(samples) % rows # 0 THEN Raise
    ELSE Array2D("int16",
                 [c \in 1..rows |->
                     [t \in 1..(Len(samples) \div rows) |-> samples[(t - 1) * rows + c]]])

\* Reshapes with self.nrows, the channel count of the last successful load.
\* float32_path is dataset_path.replace('.bin', '_float32.npy'): for a name
\* without '.bin' it is the source file itself, which exists, and np.load
\* raises on a stream of samples.
_load_binary_file(file, filename, self_nrows) ==
    IF Extension(filename) # ".bin" THEN Raise
    ELSE IF file.float32 # None THEN file.float32.v
    ELSE IF file.payload.kind = "int16" THEN ReshapeT(file.payload.samples, self_nrows)
    ELSE Raise

\* The store of a DatasetManager after __init__.
NewStore ==
    [data_array |-> None, current_dataset |-> Some(DEFAULT_DATASET),
     nrows |-> DEFAULT_CHANNELS]

\* load_data(filename) on the store self = [data_array, current_dataset,
\* nrows]: the store it leaves and the value it returns.  The decoder's
\* result is assigned to data_array before it is tested, and shape[0] of a
\* 0-D array raises after the assignment.
load_data(self, folder, filename) ==
    IF filename \notin DOMAIN folder
    THEN [store |-> self, result |-> None]
    ELSE LET file == folder[filename]
             decoded == CASE Extension(filename) = ".pt" -> _load_pt_file(file)
                          [] Extension(filename) = ".npy" -> _load_npy_file(file)
                          [] OTHER -> _load_binary_file(file, filename, self.nrows)
         IN  IF decoded = Raise THEN [store |-> self, result |-> None]
             ELSE IF decoded = None
             THEN [store |-> [self EXCEPT !.data_array = None], result |-> None]
             ELSE IF Ndim(decoded) = 0
             THEN [store |-> [self EXCEPT !.data_array = decoded], result |-> None]
             ELSE [store |-> [data_array |-> decoded,
                              current_dataset |-> Some(filename),
                              nrows |-> ShapeOf(decoded)[1]],
                   result |-> decoded]

\* SpikeTimesManager.load_spike_times: spike_times_data after the call.  It
\* is None without a mapping, without the mapped file, when torch.load raises
\* and when the file holds neither an array, a tensor nor a dict.
load_spike_times(mapping, label_folder, dataset_filename) ==
    IF dataset_filename \notin DOMAIN mapping THEN None
    ELSE IF mapping[dataset_filename] \notin DOMAIN label_folder THEN None
    ELSE LET loaded_data == label_folder[mapping[dataset_filename]]
         IN  IF loaded_data.kind \in {"ndarray", "dict"} THEN loaded_data ELSE None

\* werkzeug's secure_filename on the names the model sends: a space becomes
\* an underscore, the other names are left as they are.
secure_filename(dataset_name) ==
    IF dataset_name = "probe 1.bin" THEN "probe_1.bin" ELSE dataset_name

(***************************************************************************)
(* Cluster statistics and waveforms (routes/clustering.py).                *)
(*                                                                         *)
(* Spike times are divided by 30000.0 and compared in binary64.  A double  *)
(* below 1 is the sequence of its first FloatBits binary digits after the  *)
(* point; SubSeq makes each sequence explicit.                             *)
(***************************************************************************)
sampling_frequency == 30000
FloatBits == 70

\* 2^k modulo the sampling frequency, for k in 0..FloatBits.
RECURSIVE PowerOfTwoMod(_)
PowerOfTwoMod(k) ==
    IF k = 0 THEN 1 ELSE (2 * PowerOfTwoMod(k - 1)) % sampling_frequency
PowersOfTwo == [k \in 0..FloatBits |-> PowerOfTwoMod(k)]

\* Rounds to the 53 significant bits of a double, halves to even.
RoundToDouble(bits) ==
    LET ones == {k \in 1..FloatBits : bits[k] = 1}
    IN  IF ones = {} THEN SubSeq([k \in 1..FloatBits |-> 0], 1, FloatBits)
        ELSE LET p == CHOOSE k \in ones : \A j \in ones : k <= j
                 q == p + 52
                 up == /\ q < FloatBits
                       /\ bits[q + 1] = 1
                       /\ \/ bits[q] = 1
                          \/ \E k \in (q + 2)..Len(bits) : bits[k] = 1
                 zeros == {k \in 1..q : bits[k] = 0}
                 j == CHOOSE k \in zeros : \A i \in zeros : i <= k
             IN  SubSeq([k \in 1..FloatBits |->
                            IF k > q THEN 0
                            ELSE IF ~up THEN bits[k]
                            ELSE IF k < j THEN bits[k]
                            ELSE IF k = j THEN 1 ELSE 0], 1, FloatBits)

\* np.array(spike_times_samples) / 30000.0, one element: the binary
\* expansion of t / 30000 for 0 <= t < 30000, with a last digit that tells
\* whether digits other than 0 follow, rounded to a double.
Seconds(t) ==
    LET Rem(k) == (t * PowersOfTwo[k]) % sampling_frequency
    IN  RoundToDouble(
            SubSeq([k \in 1..(FloatBits + 1) |->
                       IF k <= FloatBits THEN (2 * Rem(k - 1)) \div sampling_frequency
                       ELSE IF Rem(FloatBits) = 0 THEN 0 ELSE 1], 1, FloatBits + 1))

\* One element of np.diff(sorted_times) < 0.002: the difference of the two
\* doubles, rounded, against the double nearest to 60 / 30000.
IsiViolation(earlier, later) ==
    LET b == Seconds(later)
        a == Seconds(earlier)
        Borrow(k) == \E j \in (k + 1)..FloatBits :
                        /\ b[j] < a[j]
                        /\ \A i \in (k + 1)..(j - 1) : b[i] = a[i]
        isi == RoundToDouble(
                   SubSeq([k \in 1..(FloatBits + 1) |->
                              IF k = FloatBits + 1 THEN 0
                              ELSE (b[k] - a[k] - (IF Borrow(k) THEN 1 ELSE 0)) % 2],
                          1, FloatBits + 1))
        limit == Seconds(60)
    IN  \E j \in 1..FloatBits :
            isi[j] < limit[j] /\ \A i \in 1..(j - 1) : isi[i] = limit[i]

\* The sum np.mean divides by the length.
RECURSIVE RatSum(_)
RatSum(s) == IF Len(s) = 0 THEN ToFloat(0) ELSE RatAdd(Head(s), RatSum(Tail(s)))

\* Lines 71-99: the statistics of one cluster.  The rate is the pair
\* <<violations, intervals>>; max(set(channels), key=channels.count) meets the
\* small channel numbers of a set in ascending order.
ClusterStatistics(cluster_spikes) ==
    LET n == Len(cluster_spikes)
        sorted_times == SortByTime([i \in 1..n |->
                            <<cluster_spikes[i].channel, cluster_spikes[i].time>>])
        isi_violations ==
            Cardinality({i \in 1..(n - 1) :
                            IsiViolation(sorted_times[i][2], sorted_times[i + 1][2])})
        channels == {cluster_spikes[i].channel : i \in 1..n}
        Count(ch) == Cardinality({i \in 1..n : cluster_spikes[i].channel = ch})
        sum_x == RatSum([i \in 1..n |-> cluster_spikes[i].x])
        sum_y == RatSum([i \in 1..n |-> cluster_spikes[i].y])
    IN  [isiViolationRate |-> IF n > 1 THEN <<isi_violations, n - 1>> ELSE ToFloat(0),
         numSpikes |-> n,
         peakChannel |->
             IF n = 0 THEN 181
             ELSE CHOOSE ch \in channels :
                      \A other \in channels :
                          \/ Count(ch) > Count(other)
                          \/ Count(ch) = Count(other) /\ ch <= other,
         probePosition |->
             IF n = 0 THEN [x |-> 0, y |-> 0]
             ELSE [x |-> RoundToInt(<<sum_x[1], sum_x[2] * n>>),
                   y |-> RoundToInt(<<sum_y[1], sum_y[2] * n>>)]]

\* The set of cluster ids of a batch that pass `cluster_id >= len(...):
\* continue`, or Raise: a negative id counts from the end of the list, and one below
\* -len raises IndexError.
IndexedClusters(results, cluster_ids) ==
    IF \E k \in 1..Len(cluster_ids) : cluster_ids[k] < 0 - Len(results) THEN Raise
    ELSE Some({cluster_ids[k] :
                  k \in {k \in 1..Len(cluster_ids) : cluster_ids[k] < Len(results)}})

_calculate_algorithm_statistics(results, cluster_ids) ==
    LET ids == IndexedClusters(results, cluster_ids)
    IN  IF ids = Raise THEN Raise
        ELSE Some([cluster_id \in ids.v |->
                      ClusterStatistics(results[(cluster_id % Len(results)) + 1])])

\* A waveform is the cut [channel_idx, start_idx, end_idx] of the recording
\* that is z-scored into 'amplitude'.  No cluster of the model has more than
\* max_waveforms spikes.
_get_algorithm_waveforms(results, arr, cluster_ids, waveform_window) ==
    LET ids == IndexedClusters(results, cluster_ids)
        Cut(spike) == [channel_idx |-> spike.channel - 1,
                       start_idx |-> Max(0, spike.time - waveform_window),
                       end_idx |-> Min(Shape1(arr), spike.time + waveform_window)]
        Kept(spike) == /\ Cut(spike).start_idx < Cut(spike).end_idx
                       /\ 0 <= spike.channel - 1
                       /\ spike.channel - 1 < Shape0(arr)
    IN  IF ids = Raise THEN Raise
        ELSE Some([cluster_id \in ids.v |->
                      LET cluster_spikes == results[(cluster_id % Len(results)) + 1]
                          selected == SelectSeq(cluster_spikes, Kept)
                      IN  [i \in 1..Len(selected) |-> Cut(selected[i])]])

(***************************************************************************)
(* The values the model draws its inputs from.                             *)
(***************************************************************************)
NoResponse == [op |-> "none"]
Idle == [at |-> "idle"]

\* The label file migrate_existing_labels maps to the default dataset.
DEFAULT_LABEL == "c46_labels_5percent.pt"

RECURSIVE SeqsUpTo(_, _)
SeqsUpTo(S, n) ==
    IF n = 0 THEN {<<>>}
    ELSE LET shorter == SeqsUpTo(S, n - 1)
         IN  shorter \cup {Append(q, x) : q \in shorter, x \in S}

\* Sample values; the first is the most negative int16.
Pattern == <<Int16Min, -3, 2, 0, 5, -3, -3, 1>>

RowOf(c, n) == [t \in 1..n |-> Pattern[(((t - 1) + 3 * (c - 1)) % Len(Pattern)) + 1]]

\* A loaded recording of n columns; float32 recordings hold whole numbers.
Recording(dtype, n) ==
    [kind |-> "array", dtype |-> dtype, rows |-> [c \in 1..NumChannels |-> RowOf(c, n)]]

Recordings == {Recording(d, NumSamples) : d \in {"int16", "float32"}}

DetectValues == {-3, -1, 2}
DetectThresholds == {None, Some(-1), Some(0)}

NavTimes == {0, 3}
TimeLists == SeqsUpTo(NavTimes, MaxTimes)
ChannelEntries == {[kind |-> k, times |-> t] : k \in {"list", "ndarray"}, t \in TimeLists}

\* The dicts load_spike_times can leave: every key an int, or every key a str.
DictIndexes ==
    {[kind |-> "dict", items |-> f] :
        f \in UNION {[{<<form, c>> : c \in C} -> ChannelEntries] :
                        form \in {"int", "str"}, C \in SUBSET (1..NumChannels)}}

GlobalIndexes == {[kind |-> "ndarray", times |-> t] : t \in TimeLists}

SpikeIndexes == {None} \cup GlobalIndexes \cup DictIndexes

\* Channel ids of a request: the first and the last channel of the recording
\* and the ids around them.
ChannelIds == {-1, 0, 1, NumChannels, NumChannels + 1}
ChannelLists == SeqsUpTo(ChannelIds, MaxChannels)
NavChannelLists == SeqsUpTo(1..(NumChannels + 1), MaxChannels)

(***************************************************************************)
(* Actions.  A handler runs when no response is pending; Respond hands the *)
(* pending response to the client.                                         *)
(***************************************************************************)
Respond ==
    /\ response # NoResponse
    /\ response' = NoResponse
    /\ UNCHANGED <<pc, mappings, labels, files, current_dataset, nrows, data_array, spike_times_data, clustering_results, results_file,
                   persisted, deployment, runs>>

\* A direct call of SpikeDataProcessor._detect_spikes.
DetectSpikes ==
    /\ response = NoResponse
    /\ \E channel_data \in SeqsUpTo(DetectValues, MaxLen),
          spike_threshold \in DetectThresholds, invert_data \in BOOLEAN :
          LET det == _detect_spikes(channel_data, spike_threshold, invert_data)
          IN  response' = [op |-> "detect_spikes",
                           channel_data |-> channel_data,
                           spike_threshold |-> spike_threshold,
                           invert_data |-> invert_data,
                           is_spike |-> det.is_spike,
                           spike_peaks |-> det.spike_peaks]
    /\ UNCHANGED <<pc, mappings, labels, files, current_dataset, nrows, data_array, spike_times_data, clustering_results, results_file,
                   persisted, deployment, runs>>

\* POST /api/navigate-spike.
NavigateSpike ==
    /\ response = NoResponse
    /\ \E current_time \in {-1, 0, 3, 4}, direction \in {"next", "prev"},
          channels \in NavChannelLists, empty_array_raises \in BOOLEAN :
          LET req == [currentTime |-> current_time, direction |-> direction,
                      channels |-> channels, emptyArrayRaises |-> empty_array_raises]
              out == navigate_spike_route(spike_times_data, req)
          IN  response' = [op |-> "navigate_spike", request |-> req,
                           status |-> out.status, body |-> out.body]
    /\ UNCHANGED <<pc, mappings, labels, files, current_dataset, nrows, data_array, spike_times_data, clustering_results, results_file,
                   persisted, deployment, runs>>

\* The requests of POST /api/spike-data the model sends.  A threshold is read
\* only by threshold detection, `fails` only by a known filter kind, and the
\* display mode only when a filter is requested.
\* <<startTime, endTime>>: windows inside, across and beyond the recording.
QueryWindows ==
    {<<-6, -5>>, <<-6, 1>>, <<0, 3>>, <<2, NumSamples + 2>>, <<0, 30000>>,
     <<NumSamples + 1, NumSamples + 2>>, <<3, 1>>}
QueryThresholds == {None, Some(-3)}
FilterTypes == {"none", "notch"} \cup KnownFilters
DataTypes == {"raw", "filtered", "spikes"}

\* POST /api/spike-data.
GetSpikeData ==
    /\ response = NoResponse
    /\ \E ch \in ChannelLists, th \in QueryThresholds, inv \in BOOLEAN,
          w \in QueryWindows, pre \in BOOLEAN, dt \in DataTypes,
          ft \in FilterTypes, fl \in BOOLEAN :
          LET req == [channels |-> ch, spikeThreshold |-> th, invertData |-> inv,
                      startTime |-> w[1], endTime |-> w[2], usePrecomputed |-> pre,
                      dataType |-> dt, filterType |-> ft, fails |-> fl]
          IN  /\ pre => th = None
              /\ fl => ft \in KnownFilters
              /\ ft = "none" => dt = "raw"
              /\ response' = [op |-> "spike_data", request |-> req, status |-> 200,
                              body |-> get_spike_data(data_array, spike_times_data, req)]
    /\ UNCHANGED <<pc, mappings, labels, files, current_dataset, nrows, data_array, spike_times_data, clustering_results, results_file,
                   persisted, deployment, runs>>

\* What the clustering algorithm can return: per cluster the <<channel, time>>
\* of its spikes; the waveform of spike i of cluster c is numbered 3 * c + i.
JimsMeta == {<<1, 9>>, <<2, 4>>}
JimsOutputs == SeqsUpTo(SeqsUpTo(JimsMeta, MaxSpikes) \ {<<>>}, MaxClusters)
WaveformsOf(clusters_meta) ==
    [c \in 1..Len(clusters_meta) |-> [i \in 1..Len(clusters_meta[c]) |-> 3 * c + i]]

\* What the template-matching pipeline can return: <<time, cluster label>> per
\* spike; a spike at window_size has no full window.  Each of the two
\* labels has a spike that is dropped and one that is kept.
KsSpikes ==
    {<<window_size, 0>>, <<window_size + 1, 0>>, <<window_size, 2>>, <<window_size + 2, 2>>}
KsOutputs == SeqsUpTo(KsSpikes, MaxDetections)

\* server_error(str(e)): the message of the RuntimeError, or the route's own
\* message for any other exception.
RunFailed(op, error) == [op |-> op, status |-> 500, error |-> error]

\* The tests a run makes before it starts the algorithm: the message of the
\* RuntimeError it raises, or "ok".
JimsPrecondition_dependency_first(arr, dep) ==
    IF ~dep.gpu_backend /\ ~dep.JIMS_AVAILABLE THEN "TorchBCI not available"
    ELSE IF arr = None THEN "No dataset loaded"
    ELSE "ok"
JimsPrecondition(arr, dep) ==
    IF arr = None THEN "No dataset loaded"
    ELSE IF ~dep.gpu_backend /\ ~dep.JIMS_AVAILABLE THEN "TorchBCI not available"
    ELSE "ok"
KilosortPrecondition(arr, dep) ==
    IF arr = None THEN "No dataset loaded"
    ELSE IF ~dep.gpu_backend /\ ~dep.KILOSORT4_AVAILABLE THEN "Kilosort4 not available"
    ELSE "ok"
\* The answer to a run that succeeded; output records what the algorithm
\* returned in this run.
RunDone(op, results, output) ==
    [op |-> op, status |-> 200, numClusters |-> Len(results),
     numSpikes |-> Len(Flatten(results)), output |-> output]

\* ClusteringManager.run_jims_algorithm behind POST /api/spike-sorting/run.
\* With a gpu_backend the worker normalises the output as the local path does.
RunJimsAlgorithm ==
    /\ response = NoResponse
    /\ runs < MaxRuns
    /\ runs' = runs + 1
    /\ \E clusters_meta \in JimsOutputs, remote_fails \in BOOLEAN :
          LET stored == _store_clustering_results(WaveformsOf(clusters_meta),
                                                  clusters_meta)
              precondition == JimsPrecondition(data_array, deployment)
              error == IF precondition # "ok" THEN precondition
                       ELSE IF deployment.gpu_backend /\ remote_fails
                       THEN "GPU worker returned failure"
                       ELSE IF stored = Raise THEN "Failed to run spike sorting"
                       ELSE "ok"
          IN  /\ ~deployment.gpu_backend => ~remote_fails
              /\ IF error # "ok"
                 THEN /\ response' = RunFailed("run_jims", error)
                      /\ UNCHANGED <<clustering_results, results_file, persisted>>
                 ELSE /\ clustering_results' = stored
                      /\ results_file' =
                             [results_file EXCEPT !.torchbci =
                                 _save_torchbci_results_to_file(stored, @)]
                      /\ persisted' = [family |-> "torchbci", results |-> stored.v]
                      /\ response' = RunDone("run_jims", stored.v, clusters_meta)
    /\ UNCHANGED <<pc, mappings, labels, files, current_dataset, nrows, data_array, spike_times_data, deployment>>

\* ClusteringManager.run_kilosort4 behind POST /api/spike-sorting/run.
RunKilosort4 ==
    /\ response = NoResponse
    /\ runs < MaxRuns
    /\ runs' = runs + 1
    /\ \E out \in KsOutputs, remote_fails \in BOOLEAN :
          LET spike_times == [k \in 1..Len(out) |-> out[k][1]]
              spike_clusters == [k \in 1..Len(out) |-> out[k][2]]
              precondition == KilosortPrecondition(data_array, deployment)
              stored == _store_kilosort4_results(data_array, spike_times, spike_clusters)
              error == IF precondition # "ok" THEN precondition
                       ELSE IF deployment.gpu_backend /\ (remote_fails \/ stored.raised)
                       THEN "GPU worker returned failure"
                       ELSE "ok"
          IN  /\ ~deployment.gpu_backend => ~remote_fails
              /\ IF error # "ok"
                 THEN /\ response' = RunFailed("run_kilosort4", error)
                      /\ UNCHANGED <<clustering_results, results_file, persisted>>
                 ELSE IF stored.raised
                 THEN /\ clustering_results' = Some(stored.stored)
                      /\ response' = RunFailed("run_kilosort4", "Failed to run spike sorting")
                      /\ UNCHANGED <<results_file, persisted>>
                 ELSE /\ clustering_results' = Some(stored.stored)
                      /\ results_file' =
                             [results_file EXCEPT !.kilosort4 =
                                 _save_kilosort4_results_to_file(Some(stored.stored), @)]
                      /\ persisted' = [family |-> "kilosort4", results |-> stored.stored]
                      /\ response' = RunDone("run_kilosort4", stored.stored, out)
    /\ UNCHANGED <<pc, mappings, labels, files, current_dataset, nrows, data_array, spike_times_data, deployment>>

LoadOutcome(family, loaded) ==
    /\ response' = [op |-> "load_preprocessed", family |-> family,
                    status |-> IF loaded = Raise THEN "FileNotFoundError" ELSE "ok"]
    /\ clustering_results' = IF loaded = Raise THEN clustering_results ELSE loaded
    /\ UNCHANGED <<pc, mappings, labels, files, current_dataset, nrows, data_array, spike_times_data, results_file, persisted,
                   deployment, runs>>

LoadPreprocessedTorchbci ==
    /\ response = NoResponse
    /\ LoadOutcome("torchbci", load_preprocessed_torchbci(results_file.torchbci))

LoadPreprocessedKilosort4 ==
    /\ response = NoResponse
    /\ LoadOutcome("kilosort4", load_preprocessed_kilosort4(results_file.kilosort4))

\* ClusteringManager.clear_results.
ClearResults ==
    /\ response = NoResponse
    /\ clustering_results # None
    /\ clustering_results' = None
    /\ response' = [op |-> "clear_results"]
    /\ UNCHANGED <<pc, mappings, labels, files, current_dataset, nrows, data_array, spike_times_data, results_file, persisted,
                   deployment, runs>>

(***************************************************************************)
(* Request threads.  Flask's app.run serves every request on a thread of   *)
(* its own and the managers hold no lock, so a handler that writes a slot  *)
(* in several statements can be overtaken between two of them.  pc is the  *)
(* position of the writing thread; its fields before and target record the *)
(* slot's value when the writer started and the value it is building.      *)
(***************************************************************************)
\* load_preprocessed_torchbci up to line 564: the slot is emptied once the
\* file has been read.
BeginLoadPreprocessedTorchbci ==
    /\ pc = Idle
    /\ results_file.torchbci # None
    /\ LET target == LoadedResults(results_file.torchbci.v)
       IN  pc' = [at |-> "load_preprocessed_torchbci", rest |-> target,
                  before |-> clustering_results, target |-> Some(target)]
    /\ clustering_results' = Some(<<>>)
    /\ UNCHANGED <<mappings, labels, files, current_dataset, nrows, data_array,
                   spike_times_data, results_file, persisted, deployment, runs,
                   response>>

\* Lines 566-577: one iteration of the loop appends one cluster; the method
\* returns after the last.
AppendLoadedCluster ==
    /\ pc # Idle
    /\ pc.at = "load_preprocessed_torchbci"
    /\ clustering_results' = Some(Append(clustering_results.v, Head(pc.rest)))
    /\ pc' = IF Len(pc.rest) = 1 THEN Idle ELSE [pc EXCEPT !.rest = Tail(@)]
    /\ UNCHANGED <<mappings, labels, files, current_dataset, nrows, data_array,
                   spike_times_data, results_file, persisted, deployment, runs,
                   response>>

\* _store_kilosort4_results up to line 298, in a local run whose pipeline
\* returned out: the slot is emptied before any waveform is collected.
BeginStoreKilosort4 ==
    /\ pc = Idle
    /\ runs < MaxRuns
    /\ runs' = runs + 1
    /\ KilosortPrecondition(data_array, deployment) = "ok"
    /\ ~deployment.gpu_backend
    /\ \E out \in KsOutputs :
          LET stored == _store_kilosort4_results(
                            data_array, [k \in 1..Len(out) |-> out[k][1]],
                            [k \in 1..Len(out) |-> out[k][2]])
          IN  pc' = [at |-> "_store_kilosort4_results", raised |-> stored.raised,
                     before |-> clustering_results, target |-> Some(stored.stored)]
    /\ clustering_results' = Some(<<>>)
    /\ UNCHANGED <<mappings, labels, files, current_dataset, nrows, data_array,
                   spike_times_data, results_file, persisted, deployment, response>>

\* Lines 300-366 and the save that follows in run_kilosort4: the clusters are
\* appended, or the projection raises and the slot stays empty.
FinishStoreKilosort4 ==
    /\ pc # Idle
    /\ pc.at = "_store_kilosort4_results"
    /\ pc' = Idle
    /\ IF pc.raised
       THEN UNCHANGED <<clustering_results, results_file, persisted>>
       ELSE /\ clustering_results' = pc.target
            /\ results_file' =
                   [results_file EXCEPT !.kilosort4 =
                       _save_kilosort4_results_to_file(pc.target, @)]
            /\ persisted' = [family |-> "kilosort4", results |-> pc.target.v]
    /\ UNCHANGED <<mappings, labels, files, current_dataset, nrows, data_array,
                   spike_times_data, deployment, runs, response>>

\* GET /api/clustering-results on another thread.  The handler is taken to
\* read the slot once, which is the most a reader without a lock can hope
\* for.
GetClusteringResults ==
    /\ response = NoResponse
    /\ response' =
           IF clustering_results = None
           THEN [op |-> "clustering_results", status |-> 200, available |-> FALSE]
           ELSE [op |-> "clustering_results", status |-> 200, available |-> TRUE,
                 numClusters |-> Len(clustering_results.v),
                 totalSpikes |-> Len(Flatten(clustering_results.v)),
                 fullData |-> clustering_results.v]
    /\ UNCHANGED <<pc, mappings, labels, files, current_dataset, nrows, data_array,
                   spike_times_data, clustering_results, results_file, persisted,
                   deployment, runs>>

\* A file of DATASETS_FOLDER with its siblings.
DatasetFile(float32, mmap, payload) ==
    [float32 |-> float32, mmap |-> mmap, payload |-> payload]
Tensor(data) == [kind |-> "tensor", data |-> data]
\* The files DATASETS_FOLDER can hold under a name, by the loader that reads
\* them.
FilesNamed(filename) ==
    LET Stream(n) == [kind |-> "int16", samples |-> [i \in 1..n |-> (i % 7) - 3]]
    IN  CASE Extension(filename) = ".pt" ->
                 {DatasetFile(None, None, payload) :
                     payload \in
                         {Tensor(Array2D("float32", <<<<1, 2, 3>>, <<4, 5, 6>>>>)),
                          Tensor(Array2D("float32", <<<<7, 8>>, <<9, 10>>, <<11, 12>>>>)),
                          Tensor(ArrayND("float32", <<3>>, <<13, 14, 15>>)),
                          Tensor(ArrayND("float32", <<2, 1, 2>>, <<16, 17, 18, 19>>)),
                          Tensor(ArrayND("float32", <<>>, <<20>>)),
                          [kind |-> "object"],
                          [kind |-> "corrupt"]}}
                 \cup {DatasetFile(Some(Array2D("float32", <<<<21, 22>>, <<23, 24>>>>)),
                                   None, [kind |-> "corrupt"]),
                       DatasetFile(None,
                                   Some(Array2D("int16", <<<<25, 26>>, <<27, 28>>>>)),
                                   [kind |-> "corrupt"])}
          [] Extension(filename) = ".npy" ->
                 {DatasetFile(None, None, payload) :
                     payload \in
                         {Tensor(Array2D("float32",
                                         <<<<29, 30>>, <<31, 32>>, <<33, 34>>>>)),
                          [kind |-> "corrupt"]}}
          [] OTHER ->
                 {DatasetFile(None, None, Stream(n)) :
                     n \in {DEFAULT_CHANNELS, 2 * DEFAULT_CHANNELS}}
                 \cup {DatasetFile(Some(Array2D("float32", <<<<35, 36>>, <<37, 38>>>>)),
                                   None, Stream(DEFAULT_CHANNELS))}

FileNames == {DEFAULT_DATASET, "session.npy", "probe_1.bin", "unit7.dat"}
Folders ==
    UNION {{folder \in [present -> UNION {FilesNamed(n) : n \in FileNames}] :
                \A n \in present : folder[n] \in FilesNamed(n)} :
           present \in SUBSET FileNames}

\* The names a request carries: the file names and one that is not secure.
RequestNames == FileNames \cup {"probe 1.bin"}

\* POST /api/dataset/set.
SetCurrentDataset ==
    /\ response = NoResponse
    /\ \E dataset_name \in RequestNames :
          LET self == [data_array |-> data_array, current_dataset |-> current_dataset,
                       nrows |-> nrows]
              loaded == load_data(self, files, dataset_name)
          IN  /\ data_array' = loaded.store.data_array
              /\ current_dataset' = loaded.store.current_dataset
              /\ nrows' = loaded.store.nrows
              /\ IF loaded.result = None
                 THEN /\ response' = [op |-> "set_dataset", dataset |-> dataset_name,
                                      status |-> 500, error |-> "Failed to load dataset"]
                      /\ UNCHANGED spike_times_data
                 ELSE /\ spike_times_data' =
                             load_spike_times(mappings, labels, dataset_name)
                      /\ response' =
                             IF Ndim(loaded.result) < 2
                             THEN [op |-> "set_dataset", dataset |-> dataset_name,
                                   status |-> 500, error |-> "Failed to set dataset"]
                             ELSE [op |-> "set_dataset", dataset |-> dataset_name,
                                   status |-> 200,
                                   totalChannels |-> ShapeOf(loaded.result)[1],
                                   totalDataPoints |-> ShapeOf(loaded.result)[2]]
    /\ UNCHANGED <<pc, mappings, labels, files, clustering_results, results_file, persisted, deployment, runs>>

\* DELETE /api/dataset/delete.  os.listdir gives the other files in an order
\* the file system chooses, so the first of them is any of them.
DeleteDataset ==
    /\ response = NoResponse
    /\ \E dataset_name \in RequestNames :
          LET filename == secure_filename(dataset_name)
              self == [data_array |-> data_array, current_dataset |-> current_dataset,
                       nrows |-> nrows]
              other_datasets == DOMAIN files \ {filename}
          IN  IF filename \notin DOMAIN files
              THEN /\ response' = [op |-> "delete_dataset", dataset |-> dataset_name,
                                   status |-> 404]
                   /\ UNCHANGED <<mappings, labels, files, current_dataset, nrows,
                                  data_array, spike_times_data>>
              ELSE /\ IF Some(dataset_name) # current_dataset
                      THEN UNCHANGED <<current_dataset, nrows, data_array, spike_times_data>>
                      ELSE IF other_datasets # {}
                      THEN \E new_dataset \in other_datasets :
                              LET loaded == load_data(self, files, new_dataset)
                              IN  /\ data_array' = loaded.store.data_array
                                  /\ current_dataset' = loaded.store.current_dataset
                                  /\ nrows' = loaded.store.nrows
                                  /\ spike_times_data' =
                                         load_spike_times(mappings, labels, new_dataset)
                      ELSE /\ data_array' = None
                           /\ current_dataset' = None
                           /\ UNCHANGED <<nrows, spike_times_data>>
                   /\ files' = [n \in DOMAIN files \ {filename} |-> files[n]]
                   /\ IF dataset_name \in DOMAIN mappings
                      THEN /\ labels' = [l \in DOMAIN labels \ {mappings[dataset_name]} |->
                                            labels[l]]
                           /\ mappings' = [d \in DOMAIN mappings \ {dataset_name} |->
                                              mappings[d]]
                      ELSE UNCHANGED <<mappings, labels>>
                   /\ response' = [op |-> "delete_dataset", dataset |-> dataset_name,
                                   status |-> 200,
                                   newCurrentDataset |-> current_dataset']
    /\ UNCHANGED <<pc, clustering_results, results_file, persisted, deployment, runs>>

\* POST /api/label-mappings.  The index is reloaded when the mapping is for
\* the dataset named by current_dataset.
AddMapping ==
    /\ response = NoResponse
    /\ \E dataset_name \in {DEFAULT_DATASET, "session.npy"},
          label_name \in {DEFAULT_LABEL, "session_labels.pt"} :
          /\ mappings' = [d \in DOMAIN mappings \cup {dataset_name} |->
                             IF d = dataset_name THEN label_name ELSE mappings[d]]
          /\ spike_times_data' =
                 IF Some(dataset_name) = current_dataset
                 THEN load_spike_times(mappings', labels, dataset_name)
                 ELSE spike_times_data
          /\ response' = [op |-> "add_mapping", dataset |-> dataset_name,
                          label |-> label_name, status |-> 200]
    /\ UNCHANGED <<pc, labels, files, current_dataset, nrows, data_array,
                   clustering_results, results_file, persisted, deployment, runs>>

\* DELETE /api/label-mappings/<dataset_name>.
DeleteMapping ==
    /\ response = NoResponse
    /\ \E dataset_name \in {DEFAULT_DATASET, "session.npy"} :
          IF dataset_name \notin DOMAIN mappings
          THEN /\ response' = [op |-> "delete_mapping", dataset |-> dataset_name,
                               status |-> 404]
               /\ UNCHANGED mappings
          ELSE /\ mappings' = [d \in DOMAIN mappings \ {dataset_name} |-> mappings[d]]
               /\ response' = [op |-> "delete_mapping", dataset |-> dataset_name,
                               status |-> 200]
    /\ UNCHANGED <<pc, labels, files, current_dataset, nrows, data_array,
                   spike_times_data, clustering_results, results_file, persisted,
                   deployment, runs>>

\* POST /api/dataset/set up to line 82, on a thread of its own: load_data
\* has returned.  A failed load ends the request.
BeginSetCurrentDataset ==
    /\ pc = Idle
    /\ \E dataset_name \in RequestNames :
          LET self == [data_array |-> data_array, current_dataset |-> current_dataset,
                       nrows |-> nrows]
              loaded == load_data(self, files, dataset_name)
          IN  /\ data_array' = loaded.store.data_array
              /\ current_dataset' = loaded.store.current_dataset
              /\ nrows' = loaded.store.nrows
              /\ pc' = IF loaded.result = None THEN Idle
                       ELSE [at |-> "set_current_dataset", dataset |-> dataset_name,
                             before |-> [data_array |-> data_array,
                                         spike_times_data |-> spike_times_data],
                             target |-> [data_array |-> loaded.result,
                                         spike_times_data |->
                                             load_spike_times(mappings, labels,
                                                              dataset_name)]]
    /\ UNCHANGED <<mappings, labels, files, spike_times_data, clustering_results,
                   results_file, persisted, deployment, runs, response>>

\* Line 87 to the end of the handler: load_spike_times.
FinishSetCurrentDataset ==
    /\ pc # Idle
    /\ pc.at = "set_current_dataset"
    /\ spike_times_data' = load_spike_times(mappings, labels, pc.dataset)
    /\ pc' = Idle
    /\ UNCHANGED <<mappings, labels, files, current_dataset, nrows, data_array,
                   clustering_results, results_file, persisted, deployment, runs,
                   response>>

\* POST /api/spike-data on another thread, for the first samples of one
\* channel with the recorded spike times; the handler is taken to read the
\* two stores at one instant.
GetSpikeDataOnThread ==
    /\ response = NoResponse
    /\ \E channel_id \in 1..(NumChannels + 1), pre \in BOOLEAN :
          LET req == [channels |-> <<channel_id>>,
                      spikeThreshold |-> IF pre THEN None ELSE Some(-1),
                      invertData |-> FALSE, startTime |-> 0, endTime |-> 2,
                      usePrecomputed |-> pre, dataType |-> "raw",
                      filterType |-> "none", fails |-> FALSE]
          IN  response' = [op |-> "spike_data", request |-> req, status |-> 200,
                           body |-> get_spike_data(data_array, spike_times_data, req)]
    /\ UNCHANGED <<pc, mappings, labels, files, current_dataset, nrows, data_array,
                   spike_times_data, clustering_results, results_file, persisted,
                   deployment, runs>>

\* The batches of cluster ids the model sends: ids below, inside and above
\* the list of clusters.
ClusterIdLists == SeqsUpTo({-3, -1, 0, 1, 2}, MaxClusterIds)

\* What a batch route answers: the dict, or the route's error.
BatchResponse(op, req, out) ==
    IF out = Raise THEN [op |-> op, request |-> req, status |-> 500]
    ELSE [op |-> op, request |-> req, status |-> 200, body |-> out.v]

\* POST /api/cluster-statistics.  The preprocessed statistics read
\* spikes_xyclu_time.npy, which the model's LABELS_FOLDER does not hold.
GetClusterStatistics ==
    /\ response = NoResponse
    /\ \E cluster_ids \in ClusterIdLists, algorithm \in {"torchbci_jims", "preprocessed_kilosort"} :
          LET req == [clusterIds |-> cluster_ids, algorithm |-> algorithm]
              out == IF cluster_ids = <<>> THEN Some(<<>>)
                     ELSE IF algorithm = "torchbci_jims" /\ clustering_results # None
                     THEN _calculate_algorithm_statistics(clustering_results.v, cluster_ids)
                     ELSE Raise
          IN  response' = BatchResponse("cluster_statistics", req, out)
    /\ UNCHANGED <<pc, mappings, labels, files, current_dataset, nrows, data_array, spike_times_data,
                   clustering_results, results_file, persisted, deployment, runs>>

\* POST /api/cluster-waveforms, with maxWaveforms left at 100.
GetClusterWaveforms ==
    /\ response = NoResponse
    /\ \E cluster_ids \in ClusterIdLists, algorithm \in {"torchbci_jims", "preprocessed_kilosort"},
          waveform_window \in {1, 30} :
          LET req == [clusterIds |-> cluster_ids, algorithm |-> algorithm,
                      windowSize |-> waveform_window]
              out == IF cluster_ids = <<>> \/ data_array = None THEN Some(<<>>)
                     ELSE IF algorithm = "torchbci_jims" /\ clustering_results # None
                     THEN _get_algorithm_waveforms(clustering_results.v, data_array,
                                                   cluster_ids, waveform_window)
                     ELSE Raise
          IN  response' = BatchResponse("cluster_waveforms", req, out)
    /\ UNCHANGED <<pc, mappings, labels, files, current_dataset, nrows, data_array, spike_times_data,
                   clustering_results, results_file, persisted, deployment, runs>>

(***************************************************************************)
(* Initial states and specifications.  Each specification exercises one    *)
(* component of the service and holds the others in their initial state.   *)
(***************************************************************************)
NoSave == [family |-> "none"]
LocalDeployment ==
    [gpu_backend |-> FALSE, JIMS_AVAILABLE |-> TRUE, KILOSORT4_AVAILABLE |-> TRUE]
Deployments ==
    {LocalDeployment,
     [gpu_backend |-> FALSE, JIMS_AVAILABLE |-> FALSE, KILOSORT4_AVAILABLE |-> FALSE],
     [gpu_backend |-> TRUE, JIMS_AVAILABLE |-> FALSE, KILOSORT4_AVAILABLE |-> FALSE]}

InitStores ==
    /\ clustering_results = None
    /\ results_file = [torchbci |-> None, kilosort4 |-> None]
    /\ persisted = NoSave
    /\ runs = 0
    /\ response = NoResponse

\* The dataset store of a service whose default dataset holds data_array and
\* whose label file holds spike_times_data; no request is being served.
HeldStore ==
    /\ pc = Idle
    /\ files = IF data_array = None THEN <<>>
               ELSE (DEFAULT_DATASET :> DatasetFile(None, None, Tensor(data_array)))
    /\ mappings = IF spike_times_data = None THEN <<>>
                  ELSE (DEFAULT_DATASET :> DEFAULT_LABEL)
    /\ labels = IF spike_times_data = None THEN <<>>
                ELSE (DEFAULT_LABEL :> spike_times_data)
    /\ current_dataset = Some(DEFAULT_DATASET)
    /\ nrows = IF data_array = None THEN DEFAULT_CHANNELS ELSE Shape0(data_array)

\* _detect_spikes alone.
InitDetect ==
    /\ InitStores
    /\ data_array = None
    /\ spike_times_data = None
    /\ deployment = LocalDeployment
    /\ HeldStore

SpecDetect == InitDetect /\ [][DetectSpikes \/ Respond]_vars

\* Spike navigation over every modelled spike index.
InitNavigate ==
    /\ InitStores
    /\ data_array = Recording("int16", NumSamples)
    /\ spike_times_data \in SpikeIndexes
    /\ deployment = LocalDeployment
    /\ HeldStore

SpecNavigate == InitNavigate /\ [][NavigateSpike \/ Respond]_vars

\* Channel window queries.
QueryIndexes ==
    {None,
     [kind |-> "ndarray", times |-> <<0, 6>>],
     [kind |-> "dict",
      items |-> (IntKey(1) :> [kind |-> "list", times |-> <<7, 1>>])
                @@ (IntKey(2) :> [kind |-> "ndarray", times |-> <<3>>])]}

InitQuery ==
    /\ InitStores
    /\ data_array \in {None} \cup Recordings
    /\ spike_times_data \in QueryIndexes
    /\ data_array = None => spike_times_data = None
    /\ spike_times_data # None => data_array.dtype = "int16"
    /\ deployment = LocalDeployment
    /\ HeldStore

SpecQuery == InitQuery /\ [][GetSpikeData \/ Respond]_vars

\* Sorting runs, persistence and reload.
\* The torchbci result file an earlier session of the service left behind.
EarlierFile ==
    LET clusters_meta == <<<<<<1, 9>>, <<2, 4>>>>>>
    IN  _save_torchbci_results_to_file(
            _store_clustering_results(WaveformsOf(clusters_meta), clusters_meta), None)

InitCluster ==
    /\ clustering_results = None
    /\ results_file \in {[torchbci |-> None, kilosort4 |-> None],
                         [torchbci |-> EarlierFile, kilosort4 |-> None]}
    /\ persisted = NoSave
    /\ runs = 0
    /\ response = NoResponse
    /\ data_array \in {None, Recording("float32", ClusterSamples)}
    /\ spike_times_data = None
    /\ deployment \in Deployments
    /\ HeldStore

SpecCluster ==
    InitCluster /\ [][\/ RunJimsAlgorithm \/ RunKilosort4
                      \/ LoadPreprocessedTorchbci \/ LoadPreprocessedKilosort4
                      \/ ClearResults \/ Respond]_vars

\* A sorting run or a reload on one thread and readers on others.
SpecClusterThreads ==
    InitCluster /\ [][\/ BeginLoadPreprocessedTorchbci \/ AppendLoadedCluster
                      \/ BeginStoreKilosort4 \/ FinishStoreKilosort4
                      \/ GetClusteringResults \/ Respond]_vars

\* Dataset selection and deletion, from the state create_app leaves: the
\* default dataset is loaded, and its spike index when the load succeeded.
InitDataset ==
    /\ InitStores
    /\ pc = Idle
    /\ files \in Folders
    /\ mappings = (DEFAULT_DATASET :> DEFAULT_LABEL)
    /\ labels = (DEFAULT_LABEL :> [kind |-> "ndarray", times |-> <<0, 6>>])
    /\ LET loaded == load_data(NewStore, files, DEFAULT_DATASET)
       IN  /\ data_array = loaded.store.data_array
           /\ current_dataset = loaded.store.current_dataset
           /\ nrows = loaded.store.nrows
    /\ spike_times_data = IF data_array # None
                          THEN load_spike_times(mappings, labels, DEFAULT_DATASET)
                          ELSE None
    /\ deployment = LocalDeployment

SpecDataset == InitDataset /\ [][SetCurrentDataset \/ DeleteDataset \/ Respond]_vars

\* Dataset and mapping requests on a folder of up to two recordings that
\* load, with two label files.
InitMapping ==
    /\ InitStores
    /\ pc = Idle
    /\ files \in {f \in Folders : DOMAIN f \subseteq {DEFAULT_DATASET, "session.npy"}}
    /\ \A n \in DOMAIN files :
          LET loaded == load_data(NewStore, files, n)
          IN  loaded.result # None /\ Ndim(loaded.result) = 2
    /\ mappings = (DEFAULT_DATASET :> DEFAULT_LABEL)
    /\ labels = (DEFAULT_LABEL :> [kind |-> "ndarray", times |-> <<0, 6>>])
                @@ ("session_labels.pt" :> [kind |-> "ndarray", times |-> <<3>>])
    /\ LET loaded == load_data(NewStore, files, DEFAULT_DATASET)
       IN  /\ data_array = loaded.store.data_array
           /\ current_dataset = loaded.store.current_dataset
           /\ nrows = loaded.store.nrows
    /\ spike_times_data = IF data_array # None
                          THEN load_spike_times(mappings, labels, DEFAULT_DATASET)
                          ELSE None
    /\ deployment = LocalDeployment

SpecMapping ==
    InitMapping /\ [][\/ SetCurrentDataset \/ DeleteDataset \/ AddMapping
                      \/ DeleteMapping \/ Respond]_vars

\* A dataset switch on one thread and channel window queries on others, in
\* a folder whose files all load as two-dimensional recordings.
InitDatasetThreads ==
    /\ InitDataset
    /\ \A n \in DOMAIN files :
          LET loaded == load_data(NewStore, files, n)
          IN  loaded.result # None /\ Ndim(loaded.result) = 2

SpecDatasetThreads ==
    InitDatasetThreads /\ [][\/ BeginSetCurrentDataset \/ FinishSetCurrentDataset
                             \/ GetSpikeDataOnThread \/ Respond]_vars

\* Cluster batch queries on a ClusterSet reloaded from a result file.  The
\* rows of a file are in any order; the spikes of cluster 0 are at samples 0,
\* 12 and 72 in every order, cluster 1 holds two spikes out of time order.
InitStatistics ==
    /\ LET Row(t, cluster_id) ==
               <<Project(t).x, Project(t).y, ToFloat(cluster_id), ToFloat(t),
                 ToFloat(1 + (t % 2))>>
           StatFile(times, clusters) ==
               [i \in 1..Len(times) |-> Row(times[i], 0)]
               \o (IF clusters = 1 THEN <<>> ELSE <<Row(72, 1), Row(12, 1)>>)
           StatFiles ==
               {StatFile(times, clusters) :
                   times \in SeqsUpTo({0, 12, 72}, MaxStatSpikes) \ {<<>>},
                   clusters \in 1..MaxClusters}
       IN  \E file \in {None} \cup {Some(f) : f \in StatFiles} :
              /\ results_file = [torchbci |-> file, kilosort4 |-> None]
              /\ clustering_results =
                     IF file = None THEN None ELSE load_preprocessed_torchbci(file)
    /\ persisted = NoSave
    /\ runs = 0
    /\ response = NoResponse
    /\ data_array \in {None, Recording("int16", NumSamples)}
    /\ data_array = None => clustering_results = None
    /\ spike_times_data = None
    /\ deployment = LocalDeployment
    /\ HeldStore

SpecStatistics ==
    InitStatistics /\ [][GetClusterStatistics \/ GetClusterWaveforms \/ Respond]_vars

(***************************************************************************)
(* Properties of _detect_spikes.                                           *)
(***************************************************************************)
\* The maximal runs <<a, b>> (1-based, inclusive) of TRUE in a sequence of flags.
MaximalRuns(flags) ==
    {r \in (1..Len(flags)) \X (1..Len(flags)) :
        /\ r[1] <= r[2]
        /\ \A i \in r[1]..r[2] : flags[i]
        /\ (r[1] = 1 \/ ~flags[r[1] - 1])
        /\ (r[2] = Len(flags) \/ ~flags[r[2] + 1])}

\* C1: with a threshold supplied, spike_peaks holds exactly one index for every
\* maximal run of in-spike samples, a run that ends at or consists only of the
\* last sample included; the index lies inside its run, at the run's minimum
\* (not inverted) or maximum (inverted).
C1_OnePeakPerRun ==
    (response.op = "detect_spikes" /\ response.spike_threshold # None) =>
        LET x == response.channel_data
            peaks == response.spike_peaks
            found == MaximalRuns(response.is_spike)
            PeaksIn(r) == {k \in 1..Len(peaks) :
                              r[1] - 1 <= peaks[k] /\ peaks[k] <= r[2] - 1}
        IN  /\ Len(peaks) = Cardinality(found)
            /\ \A r \in found :
                  /\ Cardinality(PeaksIn(r)) = 1
                  /\ \A k \in PeaksIn(r) : \A i \in r[1]..r[2] :
                        IF response.invert_data
                        THEN x[peaks[k] + 1] >= x[i]
                        ELSE x[peaks[k] + 1] <= x[i]

(***************************************************************************)
(* Properties of spike navigation.                                         *)
(***************************************************************************)
\* The spike times the index holds for the channels of a request: the whole
\* list of a global index, else the lists under the channels' keys.
UnionOfSpikes(idx, channels) ==
    IF idx = None THEN {}
    ELSE IF idx.kind = "ndarray" THEN SeqRange(idx.times)
    ELSE UNION {SeqRange(idx.items[k].times) :
                   k \in {k \in DOMAIN idx.items : k[2] \in SeqRange(channels)}}

MinOf(S) == CHOOSE x \in S : \A y \in S : x <= y
MaxOf(S) == CHOOSE x \in S : \A y \in S : x >= y

\* C2: on a loaded index that holds spikes for the given channels, 'next'
\* returns the smallest spike time strictly greater than current_time, or the
\* smallest of all when none is greater; 'prev' returns the largest spike time
\* strictly less than current_time, or the largest of all when none is smaller.
C2_NextPrevWrap ==
    (/\ response.op = "navigate_spike"
     /\ UnionOfSpikes(spike_times_data, response.request.channels) # {}) =>
        LET U == UnionOfSpikes(spike_times_data, response.request.channels)
            t == response.request.currentTime
            later == {u \in U : u > t}
            earlier == {u \in U : u < t}
            expected == IF response.request.direction = "next"
                        THEN (IF later # {} THEN MinOf(later) ELSE MinOf(U))
                        ELSE (IF earlier # {} THEN MaxOf(earlier) ELSE MaxOf(U))
        IN  /\ response.status = 200
            /\ response.body.spikeTime = expected

\* C7: navigation ends without an exception; it ends not-found exactly when no
\* spike index is loaded or the index holds no spike for the given channels,
\* and with a spike time in every other case.
C7_NotFoundExactly ==
    response.op = "navigate_spike" =>
        LET U == UnionOfSpikes(spike_times_data, response.request.channels)
        IN  /\ response.status \in {200, 404}
            /\ response.status = 404 <=> (spike_times_data = None \/ U = {})

(***************************************************************************)
(* Properties of channel window queries.                                   *)
(***************************************************************************)
\* The end of the window after the route's clamp.
ClampedEnd(req) == Min(req.endTime, req.startTime + max_points)

\* The requested ids that name a channel of the recording.
ValidChannels(arr, channels) ==
    IF arr = None THEN {}
    ELSE {c \in SeqRange(channels) : 1 <= c /\ c <= Shape0(arr)}

\* C3: for a valid channel and end > start, the number of samples in 'data' is
\* min(end, sample_count) - max(0, start), end being the clamped end, and it
\* is at most 20000, in threshold and in precomputed mode.
C3_WindowSampleCount ==
    (/\ response.op = "spike_data"
     /\ data_array # None
     /\ response.request.endTime > response.request.startTime) =>
        LET req == response.request
            sample_count == Shape1(data_array)
        IN  \A c \in ValidChannels(data_array, req.channels) :
                /\ c \in DOMAIN response.body
                /\ Len(response.body[c].data) =
                       Min(ClampedEnd(req), sample_count) - Max(0, req.startTime)
                /\ Len(response.body[c].data) <= max_points

\* C4: the result of a batch holds an entry for exactly the requested ids in
\* [1, channel_count]; the other ids are left out without an error, and the
\* entries are those of the same request with the other ids removed.
C4_BatchChannelIds ==
    (response.op = "spike_data" /\ data_array # None) =>
        LET req == response.request
            valid == ValidChannels(data_array, req.channels)
        IN  /\ response.status = 200
            /\ DOMAIN response.body = valid
            /\ response.body =
                   get_spike_data(data_array, spike_times_data,
                                  [req EXCEPT !.channels =
                                      SelectSeq(req.channels, LAMBDA c : c \in valid)])

\* A batch naming a channel of the recording and an id outside it was answered.
C4_Witness ==
    /\ response.op = "spike_data"
    /\ data_array # None
    /\ ValidChannels(data_array, response.request.channels) # {}
    /\ \E c \in SeqRange(response.request.channels) : c < 1 \/ c > Shape0(data_array)
    /\ DOMAIN response.body # {}

\* C5: in precomputed mode isSpike[i] is true exactly when a recorded spike
\* time t of the channel (or of the global list) with start <= t < end has
\* |i - (t - start)| <= 5, and every recorded spike time in the window has at
\* least one true isSpike sample.
C5_PrecomputedOverlay ==
    (/\ response.op = "spike_data"
     /\ response.request.usePrecomputed
     /\ spike_times_data # None) =>
        LET req == response.request
            start == req.startTime
            TimesFor(c) ==
                IF spike_times_data.kind = "ndarray" THEN SeqRange(spike_times_data.times)
                ELSE IF IntKey(c) \in DOMAIN spike_times_data.items
                THEN SeqRange(spike_times_data.items[IntKey(c)].times)
                ELSE {}
            InWindow(c) == {t \in TimesFor(c) : start <= t /\ t < ClampedEnd(req)}
        IN  \A c \in DOMAIN response.body :
                LET flags == response.body[c].isSpike
                IN  /\ \A i \in 0..(Len(flags) - 1) :
                          flags[i + 1] <=>
                              \E t \in InWindow(c) : Abs(i - (t - start)) <= spike_window
                    /\ \A t \in InWindow(c) : \E i \in 1..Len(flags) : flags[i]

\* The series x, negated sample by sample when invert is set.
Inverted(x, invert) == [i \in 1..Len(x) |-> IF invert THEN 0 - x[i] ELSE x[i]]

\* The raw window of channel c for the request of the pending response, and
\* the trace apply_filter_with_buffer computes for the entry's window.
RawWindow(c) ==
    get_channel_data(data_array, c, response.request.startTime,
                     ClampedEnd(response.request)).v
FilteredTrace(c) ==
    apply_filter_with_buffer(RawWindow(c), FullRow(data_array, c - 1),
                             response.body[c].startTime, response.body[c].endTime,
                             response.request.filterType, response.request.fails)

\* C8: with a filter kind other than 'none', 'data' is the raw window in 'raw'
\* and 'filtered' mode and the rounded filtered trace in 'spikes' mode, negated
\* if invert is set; threshold detection is evaluated on the series in 'data'.
C8_DisplayModes ==
    (response.op = "spike_data" /\ response.request.filterType # "none") =>
        \A c \in DOMAIN response.body :
            LET req == response.request
                e == response.body[c]
                shown == IF req.dataType = "spikes"
                         THEN RoundAll(FilteredTrace(c)) ELSE RawWindow(c)
                det == _detect_spikes(e.data, req.spikeThreshold, req.invertData)
            IN  /\ e.data = Inverted(shown, req.invertData)
                /\ "precomputed" \notin DOMAIN e =>
                       /\ e.isSpike = det.is_spike
                       /\ e.spikePeaks = det.spike_peaks

\* C9: a channel result carries 'filteredData' only in 'filtered' mode, in
\* threshold and in precomputed mode.
C9_FilteredDataOnlyInFilteredMode ==
    response.op = "spike_data" =>
        \A c \in DOMAIN response.body :
            "filteredData" \in DOMAIN response.body[c] =>
                response.request.dataType = "filtered"

\* C10: when a high-pass, low-pass or band-pass filter fails, the channel is
\* in the response and the filtered trace, of apply_filter and of
\* apply_filter_with_buffer, is the unfiltered window.
C10_FilterFailureAbsorbed ==
    (response.op = "spike_data" /\ response.request.fails /\ data_array # None) =>
        \A c \in ValidChannels(data_array, response.request.channels) :
            /\ response.status = 200
            /\ c \in DOMAIN response.body
            /\ LET req == response.request
                   e == response.body[c]
                   unfiltered == [i \in 1..Len(RawWindow(c)) |-> ToFloat(RawWindow(c)[i])]
               IN  /\ apply_filter(unfiltered, req.filterType, TRUE) = unfiltered
                   /\ FilteredTrace(c) = unfiltered
                   /\ "filteredData" \in DOMAIN e =>
                          e.filteredData = Inverted(RawWindow(c), req.invertData)

\* C11: an unknown filter kind is a no-op: apply_filter returns its input,
\* apply_filter_with_buffer returns the raw samples of the window with no
\* offset added, and the filtered trace a query delivers is the raw window.
C11_UnknownFilterIsNoOp ==
    (/\ response.op = "spike_data"
     /\ response.request.filterType \notin KnownFilters \cup {"none"}) =>
        \A c \in DOMAIN response.body :
            LET req == response.request
                e == response.body[c]
                unfiltered == [i \in 1..Len(RawWindow(c)) |-> ToFloat(RawWindow(c)[i])]
            IN  /\ apply_filter(unfiltered, req.filterType, FALSE) = unfiltered
                /\ FilteredTrace(c) = unfiltered
                /\ "filteredData" \in DOMAIN e =>
                       e.filteredData = Inverted(RawWindow(c), req.invertData)

\* C25: for the window of every channel result, in threshold and in
\* precomputed mode, apply_filter_with_buffer filters the superset
\* [max(0, start - 100), min(sample_count, end + 100)) and returns as many
\* elements as the raw slice has; element i is the filtered superset's value
\* at absolute sample start + i, plus the mean of the raw slice for high-pass
\* and band-pass and plus nothing for low-pass.
C25_BufferedFilterAlignment ==
    (/\ response.op = "spike_data"
     /\ response.request.filterType \in KnownFilters
     /\ ~response.request.fails) =>
        \A c \in DOMAIN response.body :
            LET start == response.body[c].startTime
                end == response.body[c].endTime
                raw == RawWindow(c)
                full_row == FullRow(data_array, c - 1)
                buffer_start == Max(0, start - buffer_size)
                buffer_end == Min(Len(full_row), end + buffer_size)
                superset == [k \in 1..Max(0, buffer_end - buffer_start) |->
                                ToFloat(full_row[buffer_start + k])]
                filtered == filtfilt(response.request.filterType, superset)
                added == IF response.request.filterType = "lowpass" THEN ToFloat(0)
                         ELSE Mean(raw)
                trace == FilteredTrace(c)
            IN  /\ Len(trace) = Len(raw)
                /\ \A i \in 0..(Len(trace) - 1) :
                      /\ start + i - buffer_start + 1 \in DOMAIN filtered
                      /\ trace[i + 1] = RatAdd(filtered[start + i - buffer_start + 1], added)

\* C29: every channel result is well formed, in threshold and in precomputed
\* mode and for every requested window: isSpike is as long as data, every
\* entry p of spikePeaks satisfies 0 <= p < len(data), and data[i] comes from
\* the recording sample at absolute time startTime + i, startTime being the
\* value the result reports (checked where data shows the raw window).
C29_ChannelResultWellFormed ==
    response.op = "spike_data" =>
        \A c \in DOMAIN response.body :
            LET e == response.body[c]
                req == response.request
                full_row == FullRow(data_array, c - 1)
            IN  /\ Len(e.isSpike) = Len(e.data)
                /\ \A k \in 1..Len(e.spikePeaks) :
                      0 <= e.spikePeaks[k] /\ e.spikePeaks[k] < Len(e.data)
                /\ (req.filterType = "none" \/ req.dataType # "spikes") =>
                      /\ \A i \in 0..(Len(e.data) - 1) :
                            e.startTime + i + 1 \in DOMAIN full_row
                      /\ e.data =
                             LET raw == [i \in 1..Len(e.data) |-> full_row[e.startTime + i]]
                             IN  IF req.invertData THEN Negate(raw, data_array.dtype)
                                 ELSE raw

\* C12: threshold detection is deterministic and inversion-symmetric: the
\* same query on the same state returns the same isSpike and spikePeaks, and
\* the query with invert flipped and the threshold negated returns the same
\* isSpike flags and the same spikePeaks positions.
C12_InversionSymmetry ==
    (/\ response.op = "spike_data"
     /\ response.request.spikeThreshold # None) =>
        LET req == response.request
            mirrored_req == [req EXCEPT !.invertData = ~req.invertData,
                                        !.spikeThreshold = Some(0 - req.spikeThreshold.v)]
            again == get_spike_data(data_array, spike_times_data, req)
            mirrored == get_spike_data(data_array, spike_times_data, mirrored_req)
        IN  \A c \in DOMAIN response.body :
                /\ again[c].isSpike = response.body[c].isSpike
                /\ again[c].spikePeaks = response.body[c].spikePeaks
                /\ c \in DOMAIN mirrored
                /\ mirrored[c].isSpike = response.body[c].isSpike
                /\ mirrored[c].spikePeaks = response.body[c].spikePeaks

(***************************************************************************)
(* Properties of the dataset store.                                        *)
(***************************************************************************)
\* A raw int16 binary file without a preprocessed sibling.
RawBinary(filename) ==
    /\ filename \in DOMAIN files
    /\ Extension(filename) = ".bin"
    /\ files[filename].float32 = None
    /\ files[filename].payload.kind = "int16"

\* C13: loading a raw int16 binary recording that has no preprocessed sibling
\* reshapes it with the default channel count and reports 385 channels,
\* whatever was loaded before.
C13_RawBinaryDefaultChannels ==
    (/\ response.op = "set_dataset"
     /\ RawBinary(response.dataset)
     /\ Len(files[response.dataset].payload.samples) % DEFAULT_CHANNELS = 0) =>
        /\ response.status = 200
        /\ response.totalChannels = DEFAULT_CHANNELS
        /\ nrows = DEFAULT_CHANNELS
        /\ data_array = ReshapeT(files[response.dataset].payload.samples, DEFAULT_CHANNELS)

\* C14: a failed load leaves the store as it was: when load_data returns
\* failure (the request is answered "Failed to load dataset"), data_array,
\* current_dataset and nrows are what they were before the request.
C14_FailedLoadLeavesStore ==
    [][(/\ response = NoResponse
        /\ response'.op = "set_dataset"
        /\ response'.status = 500
        /\ response'.error = "Failed to load dataset") =>
            UNCHANGED <<data_array, current_dataset, nrows>>]_vars

\* A file read through torch.load: a .pt file without preprocessed siblings.
GenericTensor(filename) ==
    /\ filename \in DOMAIN files
    /\ Extension(filename) = ".pt"
    /\ files[filename].float32 = None
    /\ files[filename].mmap = None
    /\ files[filename].payload.kind = "tensor"

\* C15: a load through the generic-tensor path fails whenever the data is
\* neither 1-D nor 2-D, and such data never becomes the current Recording.
C15_UnsupportedShapeRejected ==
    /\ data_array # None => Ndim(data_array) \in {1, 2}
    /\ (/\ response.op = "set_dataset"
        /\ GenericTensor(response.dataset)
        /\ Ndim(files[response.dataset].payload.data) \notin {1, 2}) =>
            /\ response.status = 500
            /\ response.error = "Failed to load dataset"

\* C24: the candidates are tried in a fixed order and the first match wins.
\* For every accepted extension an existing single-precision sibling becomes
\* the Recording; a .pt source without it uses its memmap sibling when that
\* exists, else the tensor the file holds; a binary source (.bin, .dat)
\* without a single-precision sibling is read as a flat int16 stream, here
\* whenever the channel count in force divides its length.
C24_FirstCandidateWins ==
    [][(/\ response = NoResponse
        /\ response'.op = "set_dataset"
        /\ response'.dataset \in DOMAIN files)
       => LET filename == response'.dataset
              file == files[filename]
          IN  /\ file.float32 # None => data_array' = file.float32.v
              /\ (/\ Extension(filename) = ".pt"
                  /\ file.float32 = None
                  /\ file.mmap # None) => data_array' = file.mmap.v
              /\ (GenericTensor(filename) /\ Ndim(file.payload.data) = 2) =>
                     data_array' \in {file.payload.data, Transposed(file.payload.data)}
              /\ (/\ Extension(filename) \in {".bin", ".dat"}
                  /\ file.float32 = None
                  /\ file.payload.kind = "int16"
                  /\ Len(file.payload.samples) % nrows = 0) =>
                     data_array' = ReshapeT(file.payload.samples, nrows)]_vars

\* C30: after any sequence of dataset select, dataset delete, mapping add
\* and mapping delete requests, a SpikeTimeIndex that is present is the one
\* the label file mapped to the current dataset loads to, and when the
\* Recording is absent the SpikeTimeIndex is absent too.
C30_IndexFollowsMapping ==
    /\ data_array = None => spike_times_data = None
    /\ spike_times_data # None =>
          /\ current_dataset # None
          /\ spike_times_data = load_spike_times(mappings, labels, current_dataset.v)

\* C20: after a successful delete the current dataset name is not the deleted
\* dataset and the Recording is not the deleted dataset's data; deleting the
\* active dataset leaves no Recording and no name when no other dataset
\* exists, and otherwise the Recording of one of the other datasets.
C20_DeleteActiveDataset ==
    [][(/\ response = NoResponse
        /\ response'.op = "delete_dataset"
        /\ response'.status = 200) =>
            LET filename == secure_filename(response'.dataset)
                active == current_dataset = Some(filename)
                others == DOMAIN files \ {filename}
            IN  /\ current_dataset' # Some(filename)
                /\ (active /\ others = {}) =>
                       (data_array' = None /\ current_dataset' = None)
                /\ (active /\ others # {}) =>
                       (/\ data_array' # None
                        /\ \E n \in others : current_dataset' = Some(n))
                /\ (active /\ data_array # None) => data_array' # data_array]_vars

(***************************************************************************)
(* Properties of the cluster result store.                                 *)
(***************************************************************************)
\* C16: a sorting run without a Recording fails with the no-data error, with
\* or without a remote backend; a run with a Recording, no remote backend and
\* the local dependency missing fails with the algorithm-unavailable error;
\* both leave the current ClusterSet and the persisted result files unchanged.
C16_RunPreconditions ==
    [][(/\ response = NoResponse
        /\ response'.op \in {"run_jims", "run_kilosort4"}) =>
            LET missing == IF response'.op = "run_jims"
                           THEN ~deployment.JIMS_AVAILABLE
                           ELSE ~deployment.KILOSORT4_AVAILABLE
                unavailable == IF response'.op = "run_jims"
                               THEN "TorchBCI not available"
                               ELSE "Kilosort4 not available"
            IN  /\ data_array = None =>
                       /\ response'.status = 500
                       /\ response'.error = "No dataset loaded"
                       /\ UNCHANGED <<clustering_results, results_file>>
                /\ (data_array # None /\ ~deployment.gpu_backend /\ missing) =>
                       /\ response'.status = 500
                       /\ response'.error = unavailable
                       /\ UNCHANGED <<clustering_results, results_file>>]_vars

\* A run was refused for want of a Recording on a service with a remote
\* backend, while a reloaded ClusterSet was current and a result file existed.
C16_Witness ==
    /\ response.op = "run_jims"
    /\ response.status = 500
    /\ response.error = "No dataset loaded"
    /\ deployment.gpu_backend
    /\ clustering_results # None
    /\ results_file.torchbci # None

SameClusterSet(a, b) ==
    /\ Len(a) = Len(b)
    /\ \A c \in 1..Len(a) :
          /\ Len(a[c]) = Len(b[c])
          /\ \A i \in 1..Len(a[c]) :
                /\ a[c][i].x = b[c][i].x
                /\ a[c][i].y = b[c][i].y
                /\ a[c][i].time = b[c][i].time
                /\ a[c][i].channel = b[c][i].channel

\* A batch query answered from the current ClusterSet.
AlgorithmBatch(op) ==
    /\ response.op = op
    /\ response.request.clusterIds # <<>>
    /\ response.request.algorithm = "torchbci_jims"
    /\ clustering_results # None
    /\ op = "cluster_waveforms" => data_array # None

\* C17: the statistics of a cluster of n spikes report spike_count n and an
\* ISI violation rate of 0 when n < 2, else the number of adjacent pairs of
\* the time-sorted spikes less than 60 samples (2 ms at 30 kHz) apart,
\* divided by n - 1; the rate lies in [0, 1] whatever the storage order.
C17_ClusterStatistics ==
    (AlgorithmBatch("cluster_statistics") /\ response.status = 200) =>
        \A cluster_id \in DOMAIN response.body :
            (0 <= cluster_id /\ cluster_id < Len(clustering_results.v)) =>
                LET cluster_spikes == clustering_results.v[cluster_id + 1]
                    n == Len(cluster_spikes)
                    sorted == SortByTime([i \in 1..n |->
                                  <<cluster_spikes[i].channel, cluster_spikes[i].time>>])
                    close == {i \in 1..(n - 1) : sorted[i + 1][2] - sorted[i][2] < 60}
                    rate == response.body[cluster_id].isiViolationRate
                IN  /\ response.body[cluster_id].numSpikes = n
                    /\ rate = IF n < 2 THEN ToFloat(0) ELSE <<Cardinality(close), n - 1>>
                    /\ 0 <= rate[1] /\ rate[1] <= rate[2]

\* C18: a batch of cluster statistics or waveforms holds an entry for exactly
\* the requested ids in [0, cluster_count); negative ids and ids at or above
\* cluster_count are left out and do not fail the batch.
C18_BatchClusterIds ==
    (AlgorithmBatch("cluster_statistics") \/ AlgorithmBatch("cluster_waveforms")) =>
        /\ response.status = 200
        /\ DOMAIN response.body =
               {id \in SeqRange(response.request.clusterIds) :
                   0 <= id /\ id < Len(clustering_results.v)}

\* C19: whenever a ClusterSet is current, whichever of a local clustering run,
\* a local template-matching run, a remote run or a reload produced it, the
\* spike at position i of every cluster (counted from 0) has spikeIndex i, so
\* a cluster of n spikes holds the indices 0..n-1 in order.
C19_DenseIndex ==
    clustering_results # None =>
        \A c \in 1..Len(clustering_results.v) :
            \A i \in 1..Len(clustering_results.v[c]) :
                clustering_results.v[c][i].spikeIndex = i - 1

\* A remote clustering run has just stored a cluster of two or more spikes.
C19_Witness ==
    /\ response # NoResponse
    /\ response.op = "run_jims"
    /\ response.status = 200
    /\ deployment.gpu_backend
    /\ clustering_results # None
    /\ \E c \in 1..Len(clustering_results.v) : Len(clustering_results.v[c]) >= 2

\* C21: a sorting run or a reload that fails, whether by a missing file, a
\* remote failure, a failed precondition or a failure while the output is
\* post-processed, leaves the current ClusterSet as it was before the call.
C21_FailureLeavesClusterSet ==
    [][(/\ response = NoResponse
        /\ response' # NoResponse
        /\ \/ response'.op \in {"run_jims", "run_kilosort4"} /\ response'.status = 500
           \/ response'.op = "load_preprocessed" /\ response'.status = "FileNotFoundError")
       => clustering_results' = clustering_results]_vars

\* C22: a read of the current ClusterSet that is interleaved with a sorting
\* run or a reload observes the complete ClusterSet from before the writer
\* started or the complete one it is building, never an empty or partly
\* filled one.
C22_ReadSeesCompleteClusterSet ==
    [][(/\ response = NoResponse
        /\ response' # NoResponse
        /\ response'.op = "clustering_results"
        /\ pc # Idle)
       => LET seen == IF response'.available THEN Some(response'.fullData) ELSE None
          IN  seen \in {pc.before, pc.target}]_vars

\* C23: a channel window query that is interleaved with a dataset switch is
\* answered from one dataset: what it returns is what the same query returns
\* on the Recording and SpikeTimeIndex from before the switch, or on those
\* the switch ends with.
C23_QuerySeesOneDataset ==
    [][(/\ response = NoResponse
        /\ response' # NoResponse
        /\ response'.op = "spike_data"
        /\ pc # Idle)
       => response'.body \in
              {get_spike_data(pc.before.data_array, pc.before.spike_times_data,
                              response'.request),
               get_spike_data(pc.target.data_array, pc.target.spike_times_data,
                              response'.request)}]_vars

\* C26: after a local clustering run that succeeded, and after the result it
\* persisted has been reloaded, the spike times of every cluster of the
\* current ClusterSet are non-decreasing in stored order.
C26_TimesNonDecreasing ==
    (\/ response.op = "run_jims" /\ response.status = 200
     \/ /\ response.op = "load_preprocessed"
        /\ response.family = "torchbci"
        /\ response.status = "ok") =>
        \A c \in 1..Len(clustering_results.v) :
            \A i \in 1..(Len(clustering_results.v[c]) - 1) :
                clustering_results.v[c][i].time <= clustering_results.v[c][i + 1].time

\* The result of a run whose algorithm returned a cluster out of time order
\* has been persisted and reloaded.
C26_Witness ==
    /\ response.op = "load_preprocessed"
    /\ response.family = "torchbci"
    /\ response.status = "ok"
    /\ persisted.family = "torchbci"
    /\ SameClusterSet(clustering_results.v, persisted.results)
    /\ \E c \in 1..Len(clustering_results.v) :
          /\ Len(clustering_results.v[c]) = 2
          /\ clustering_results.v[c][1].time < clustering_results.v[c][2].time

\* C27: after a clustering run every stored spike carries the coordinates of
\* its own waveform: the spike the algorithm returned with the stored
\* (channel, time), in the same cluster, is the one whose waveform projects
\* to the stored (x, y).
C27_CoordinatesOfOwnWaveform ==
    (response.op = "run_jims" /\ response.status = 200) =>
        LET clusters_meta == response.output
            clusters == WaveformsOf(clusters_meta)
        IN  \A c \in 1..Len(clustering_results.v) :
                \A i \in 1..Len(clustering_results.v[c]) :
                    LET spike == clustering_results.v[c][i]
                    IN  \E j \in 1..Len(clusters_meta[c]) :
                           /\ clusters_meta[c][j] = <<spike.channel, spike.time>>
                           /\ Project(clusters[c][j]).x = spike.x
                           /\ Project(clusters[c][j]).y = spike.y

\* C28: after a template-matching run every stored spike is a detected spike
\* with a full window: its coordinates and peak channel are those of the
\* window at its stored time, and it is stored under the cluster of its
\* label, the clusters being the labels that kept a spike, in order.  This
\* holds also when spikes near an edge are dropped and when a label keeps
\* no spike.
C28_TimeOfOwnWindow ==
    (response.op = "run_kilosort4" /\ response.status = 200) =>
        LET out == response.output
            kept == {k \in 1..Len(out) : HasWindow(data_array, out[k][1])}
            labels_kept == SortedSeq({out[k][2] : k \in kept})
        IN  /\ Len(clustering_results.v) = Len(labels_kept)
            /\ \A c \in 1..Len(clustering_results.v) :
                  /\ Len(clustering_results.v[c]) =
                         Cardinality({k \in kept : out[k][2] = labels_kept[c]})
                  /\ \A i \in 1..Len(clustering_results.v[c]) :
                        LET spike == clustering_results.v[c][i]
                        IN  /\ \E k \in kept : out[k] = <<spike.time, labels_kept[c]>>
                            /\ spike.x = Project(spike.time).x
                            /\ spike.y = Project(spike.time).y
                            /\ HasWindow(data_array, spike.time) =>
                                   spike.channel = PeakChannel(data_array, spike.time)

\* C6: reloading the family that a sorting run persisted last yields the
\* ClusterSet that was current after the run: as many clusters, as many spikes
\* in each cluster, and the same (x, y, time, channel) in the same order.
C6_PersistReloadRoundTrip ==
    (response.op = "load_preprocessed" /\ response.family = persisted.family) =>
        /\ response.status = "ok"
        /\ SameClusterSet(clustering_results.v, persisted.results)

====
